---- MODULE Spec2Model ----
(***************************************************************************)
(* Drone_data: georeferencing batch loops, attitude composition, the       *)
(* glitter yaw estimator and the Kalman trajectory smoother.               *)
(*                                                                         *)
(* Numbers.  Angles are integers counted in quanta of 1/QuantaPerDeg       *)
(* degree.  A value read from a telemetry row is a record [fin, v]: fin    *)
(* is FALSE for NaN and +/-Inf (numpy's np.isfinite).  Python/numpy        *)
(* floats are modelled as a binary floating-point format with MantBits     *)
(* bits of mantissa (round to nearest, ties to even) where a result is     *)
(* rounded at the magnitude of 360 degrees; double precision has 53 bits,  *)
(* the model keeps the format and shortens the mantissa.                   *)
(***************************************************************************)
EXTENDS Integers, Sequences, FiniteSets, TLC

VARIABLES
    att,        \* attitude composition: arguments and results of the last do_georeference call
    gl,         \* glitter estimator: arguments and result of the last calc_yaw_from_ellipse call
    batch,      \* batch loop: which entry point runs, library flags, number of rows
    r,          \* batch loop: index of the next row (1-based)
    pc,         \* batch loop: "loop", "done" (loop ended) or "aborted" (exception left the loop)
    outFiles,   \* batch loop: names of the .nc and .tif files present in outputDirectory
    cur,        \* batch loop: what the last iteration did with its row
    kal,        \* smoother: the state of one temporal_smooth_kalman call
    pipe,       \* pipeline: position of run_pipeline, the files on disk, the stages run
    numpy,      \* the installed NumPy: how it types a Python int times a uint8 scalar
    img         \* metadata extraction: one image file, its parsed orientation, its table row

vars == <<att, gl, batch, r, pc, outFiles, cur, kal, pipe, numpy, img>>

(***************************************************************************)
(* Bounds of the model                                                     *)
(***************************************************************************)
QuantaPerDeg == 4       \* angle resolution: quanta per degree
MantBits == 9           \* mantissa bits of the modelled float format
MaxRows == 2            \* rows of a batch
ImgLen == 4             \* pixels of a modelled image (one scan line)
BlurRadius == 1         \* half-width of the modelled blur window
MaxSamples == 3         \* samples of a trajectory
MainImgLen == 8         \* pixels of an image read by the __main__ script
MaxPixels == 3          \* pixels along one axis of a georeferenced image

(***************************************************************************)
(* Floating-point helpers                                                  *)
(***************************************************************************)
Abs(x) == IF x < 0 THEN -x ELSE x

RECURSIVE Pow2(_)
Pow2(n) == IF n = 0 THEN 1 ELSE 2 * Pow2(n - 1)

\* spacing of the representable values at magnitude m
RECURSIVE Ulp(_, _)
Ulp(m, u) == IF m < Pow2(MantBits) * u THEN u ELSE Ulp(m, 2 * u)

\* round to nearest representable value, ties to even
FlRound(x) ==
    LET u  == Ulp(Abs(x), 1)
        lo == (x \div u) * u
        hi == lo + u
    IN  IF x = lo THEN x
        ELSE IF 2 * (x - lo) < u THEN lo
        ELSE IF 2 * (x - lo) > u THEN hi
        ELSE IF (lo \div u) % 2 = 0 THEN lo ELSE hi

Deg(d) == d * QuantaPerDeg

\* C fmod: exact, result has the sign of the dividend
Fmod(a, b) == IF a < 0 THEN -((-a) % b) ELSE a % b

\* Python / numpy float a % b for b > 0: fmod, then b is added to a negative
\* remainder and the sum is rounded like every float result
PyMod(a, b) ==
    LET m == Fmod(a, b)
    IN  IF m # 0 /\ m < 0 THEN FlRound(m + b) ELSE m

\* telemetry values
Num(v) == [fin |-> TRUE, v |-> v]
NaN == [fin |-> FALSE, v |-> 0]
Inf == [fin |-> FALSE, v |-> 1]

IsFiniteNanOnly(x) == x # NaN

\* np.isfinite
IsFinite(x) == x.fin

(***************************************************************************)
(* do_georeference: attitude composition (lines 88-90)                     *)
(***************************************************************************)
\* np.cos(np.deg2rad(a)) and np.sin(np.deg2rad(a)), in thousandths, for the
\* mount yaw offsets the model uses
CosK(a) ==
    LET d == a % Deg(360)
    IN  CASE d = Deg(0) -> 1000
          [] d = Deg(30) -> 866
          [] d = Deg(90) -> 0
          [] d = Deg(180) -> -1000
          [] d = Deg(270) -> 0

SinK(a) ==
    LET d == a % Deg(360)
    IN  CASE d = Deg(0) -> 0
          [] d = Deg(30) -> 500
          [] d = Deg(90) -> 1000
          [] d = Deg(180) -> 0
          [] d = Deg(270) -> -1000

TotalImagePitchSwapped(dronePitch, droneRoll, cameraPitch, cameraYaw) ==
    cameraPitch * 1000 + SinK(cameraYaw) * dronePitch - CosK(cameraYaw) * droneRoll

\* totalImagePitch, in thousandths of a quantum
TotalImagePitch(dronePitch, droneRoll, cameraPitch, cameraYaw) ==
    cameraPitch * 1000 + CosK(cameraYaw) * dronePitch - SinK(cameraYaw) * droneRoll

\* totalImageRoll, in thousandths of a quantum
TotalImageRoll(dronePitch, droneRoll, cameraYaw) ==
    SinK(cameraYaw) * dronePitch + CosK(cameraYaw) * droneRoll

\* totalImageYaw = (droneYaw + cameraYaw) % 360.0
TotalImageYaw(droneYaw, cameraYaw) ==
    PyMod(FlRound(droneYaw + cameraYaw), Deg(360))

\* the attitude part of do_georeference on telemetry values: numpy propagates
\* NaN (0 * NaN is NaN, so a NaN roll reaches the pitch and a NaN pitch the roll)
ComposeAttitude(droneRoll, dronePitch, droneYaw, cameraPitch, cameraYaw) ==
    [ totalPitch |-> IF droneRoll.fin /\ dronePitch.fin
                     THEN Num(TotalImagePitch(dronePitch.v, droneRoll.v, cameraPitch, cameraYaw))
                     ELSE NaN,
      totalRoll  |-> IF droneRoll.fin /\ dronePitch.fin
                     THEN Num(TotalImageRoll(dronePitch.v, droneRoll.v, cameraYaw))
                     ELSE NaN,
      totalYaw   |-> IF droneYaw.fin
                     THEN Num(TotalImageYaw(droneYaw.v, cameraYaw))
                     ELSE NaN ]

AttIdle == [stage |-> "idle"]

\* one call of do_georeference: the composed attitude of the image
DoGeoreferenceAttitude ==
    /\ att.stage = "idle"
    /\ \E roll \in { Deg(-7), 0, Deg(3) },
          pitch \in { Deg(-20), Deg(-1), 0, Deg(5) },
          yaw \in { FlRound(y) : y \in { Deg(-450), Deg(-90) - 1, Deg(-90), -1, 0, 1, Deg(10),
                                        Deg(90), Deg(270), Deg(360), Deg(720) } },
          cameraPitch \in { Deg(-90), Deg(-15), Deg(30) },
          cameraYaw \in { Deg(0), Deg(30), Deg(90), Deg(180), Deg(270), Deg(450) } :
          att' = [ stage |-> "composed",
                   droneRoll |-> roll, dronePitch |-> pitch, droneYaw |-> yaw,
                   cameraPitch |-> cameraPitch, cameraYaw |-> cameraYaw,
                   totalPitch |-> TotalImagePitch(pitch, roll, cameraPitch, cameraYaw),
                   totalRoll |-> TotalImageRoll(pitch, roll, cameraYaw),
                   totalYaw |-> TotalImageYaw(yaw, cameraYaw),
                   rewrapped |-> FALSE, wrappedOnce |-> 0 ]
    /\ UNCHANGED <<gl, batch, r, pc, outFiles, cur, kal, pipe, numpy, img>>

\* the wrapped yaw is wrapped again (as when a stored total yaw is fed back
\* with a zero mount offset)
RewrapYaw ==
    /\ att.stage = "composed"
    /\ ~att.rewrapped
    /\ att' = [att EXCEPT !.rewrapped = TRUE,
                          !.wrappedOnce = att.totalYaw,
                          !.totalYaw = TotalImageYaw(att.totalYaw, 0)]
    /\ UNCHANGED <<gl, batch, r, pc, outFiles, cur, kal, pipe, numpy, img>>

(***************************************************************************)
(* calc_yaw_from_ellipse (yaw_from_glitter.py)                             *)
(*                                                                         *)
(* An image is one scan line of ImgLen BGR pixels; NoImage is what         *)
(* cv2.imread returns for a file it cannot decode.  The code's own steps   *)
(* (maximum, scaled threshold, mask, contour selection, yaw) are computed; *)
(* cv2.Canny + cv2.findContours are library calls whose result `found` is  *)
(* an input, forced to be empty when the mask has no edge at all;          *)
(* cv2.fitEllipse raises for a contour of fewer than MinEllipsePoints      *)
(* points; pysolar raises for a capture time without time zone.            *)
(***************************************************************************)
DarkFloor == 100
MinEllipsePoints == 5

NoImage == <<>>

Black == <<0, 0, 0>>
White == <<255, 255, 255>>

Palette == {Black, <<99, 99, 99>>, <<100, 100, 100>>, <<255, 0, 0>>, White}

\* cv2.cvtColor(image, COLOR_BGR2GRAY) of one 8-bit pixel <<b, g, r>>
Gray(p) == (p[3] * 4899 + p[2] * 9617 + p[1] * 1868 + 8192) \div 16384

GrayImage(image) == [i \in 1..Len(image) |-> Gray(image[i])]

\* np.max
MaxOf(g) == CHOOSE m \in {g[i] : i \in 1..Len(g)} : \A i \in 1..Len(g) : g[i] <= m

RECURSIVE SumRange(_, _, _)
SumRange(g, lo, hi) ==
    IF lo > hi THEN 0
    ELSE g[IF lo < 1 THEN 1 ELSE IF lo > Len(g) THEN Len(g) ELSE lo] + SumRange(g, lo + 1, hi)

\* cv2.GaussianBlur: a rounded weighted mean over a window around each pixel
\* (equal weights, border pixels replicated)
GaussianBlur(g) ==
    LET n == 2 * BlurRadius + 1
    IN  [i \in 1..Len(g) |-> (2 * SumRange(g, i - BlurRadius, i + BlurRadius) + n) \div (2 * n)]

\* "legacy": NumPy 1.x, a Python int times a NumPy scalar is an int64;
\* "nep50": NumPy 2.x, the Python int takes the scalar's type, and the
\* product of two uint8 wraps modulo 256 (with a RuntimeWarning)
NumpyBuilds == {"legacy", "nep50"}

\* a threshold is given in hundredths; a whole threshold is a Python int, as
\* in threshold=90, any other a Python float, as in threshold=0.5
IsPythonInt(thresholdPct) == thresholdPct % 100 = 0

\* scaledThreshold = threshold * np.max(image), in hundredths; np.max of the
\* grey image is an np.uint8
ScaledThreshold(thresholdPct, mx) ==
    IF numpy = "nep50" /\ IsPythonInt(thresholdPct)
    THEN (((thresholdPct \div 100) * mx) % 256) * 100
    ELSE thresholdPct * mx

\* imageMask[image > scaledThreshold] = 200
ImageMask(blurred, thresholdPct, mx) ==
    [i \in 1..Len(blurred) |->
        IF blurred[i] * 100 > ScaledThreshold(thresholdPct, mx) THEN 200 ELSE 0]


\* contourLengths.argmax(): the first contour of greatest length
ArgMaxLen(contours) ==
    CHOOSE i \in 1..Len(contours) :
        /\ \A j \in 1..Len(contours) : contours[j].n <= contours[i].n
        /\ \A j \in 1..(i - 1) : contours[j].n < contours[i].n

GlNone(stage) == [kind |-> "none", stage |-> stage, yaw |-> 0]
GlRaise(stage) == [kind |-> "raise", stage |-> stage, yaw |-> 0]

\* the darkness test moved after the blur
DarkTestAfterBlur(g) == MaxOf(GaussianBlur(g)) < DarkFloor

\* np.max(image) < 100 on the grey image, before the blur
DarkTest(g) == MaxOf(g) < DarkFloor

\* the emptiness test left out
NoContoursNever(contours) == FALSE

\* len(contours) == 0
NoContours(contours) == Len(contours) = 0

CalcYawFromEllipse(image, thresholdPct, found, azimuth) ==
    IF image = NoImage THEN GlNone("unreadable")
    ELSE
      LET g == GrayImage(image) IN
      IF DarkTest(g) THEN GlNone("dark")
      ELSE
        LET mx == MaxOf(g)
            blurred == GaussianBlur(g)
            mask == ImageMask(blurred, thresholdPct, mx)
            contours == IF (\E i, j \in 1..Len(mask) : mask[i] # mask[j]) THEN found ELSE <<>>
        IN  IF NoContours(contours) THEN GlNone("nocontour")
            \* contourLengths.argmax() of an empty array raises ValueError
            ELSE IF Len(contours) = 0 THEN GlRaise("argmax")
            ELSE
              LET points == contours[ArgMaxLen(contours)] IN
              IF points.n < MinEllipsePoints THEN GlRaise("fitEllipse")
              ELSE IF ~azimuth.ok THEN GlRaise("azimuth")
              ELSE [kind |-> "value", stage |-> "yaw", yaw |-> azimuth.v - points.angle]

Contour(n, angle) == [n |-> n, angle |-> angle]

ContourChoices ==
    { <<>>,
      <<Contour(3, Deg(10))>>,
      <<Contour(6, Deg(30))>>,
      <<Contour(6, Deg(30)), Contour(8, Deg(120))>>,
      <<Contour(8, Deg(150)), Contour(8, Deg(45)), Contour(2, Deg(0))>> }

RECURSIVE SeqsOf(_, _)
SeqsOf(S, n) ==
    IF n = 0 THEN {<<>>}
    ELSE {Append(s, x) : s \in SeqsOf(S, n - 1), x \in S}

GlIdle == [stage |-> "idle"]

\* one call of calc_yaw_from_ellipse
CallCalcYaw ==
    /\ gl.stage = "idle"
    /\ \E image \in {NoImage} \cup SeqsOf(Palette, ImgLen),
          thresholdPct \in {50, 9000},
          found \in ContourChoices,
          azimuth \in { [ok |-> TRUE, v |-> Deg(120)], [ok |-> TRUE, v |-> Deg(40)],
                        [ok |-> FALSE, v |-> 0] } :
          gl' = [ stage |-> "returned", image |-> image, thresholdPct |-> thresholdPct,
                  found |-> found, azimuth |-> azimuth,
                  res |-> CalcYawFromEllipse(image, thresholdPct, found, azimuth) ]
    /\ UNCHANGED <<att, batch, r, pc, outFiles, cur, kal, pipe, numpy, img>>

\* cv2.resize(image, (0,0), fx=0.25, fy=0.25): round(n / 4) pixels, each the
\* rounded mean of the two source pixels around its centre (bilinear)
ResizeQuarter(image) ==
    LET n == (2 * Len(image) + 4) \div 8
        at(k) == image[IF k > Len(image) THEN Len(image) ELSE k]
    IN  [j \in 1..n |->
            [c \in 1..3 |-> (at(4 * j - 2)[c] + at(4 * j - 1)[c] + 1) \div 2]]

\* the script under __main__ (lines 80-125): no darkness test, the threshold
\* is taken from the blurred image, the first contour is fitted
MainScript(image, found, azimuth) ==
    IF image = NoImage THEN GlNone("unreadable")
    ELSE
      LET blurred == GaussianBlur(GrayImage(ResizeQuarter(image)))
          image2 == ImageMask(blurred, 50, MaxOf(blurred))
          contours == IF (\E i, j \in 1..Len(image2) : image2[i] # image2[j]) THEN found ELSE <<>>
      IN  IF Len(contours) > 0
          THEN LET points == contours[1] IN
               IF points.n < MinEllipsePoints THEN GlRaise("fitEllipse")
               ELSE [kind |-> "value", stage |-> "yaw", yaw |-> points.angle - azimuth.v]
          ELSE GlNone("nocontour")

\* one run of the script
RunMain ==
    /\ gl.stage = "idle"
    /\ \E image \in {NoImage} \cup SeqsOf({Black, White}, MainImgLen),
          found \in ContourChoices,
          azimuth \in { [ok |-> TRUE, v |-> Deg(120)], [ok |-> TRUE, v |-> Deg(40)] } :
          gl' = [ stage |-> "main_done", image |-> image, thresholdPct |-> 50,
                  found |-> found, azimuth |-> azimuth,
                  res |-> MainScript(image, found, azimuth) ]
    /\ UNCHANGED <<att, batch, r, pc, outFiles, cur, kal, pipe, numpy, img>>

(***************************************************************************)
(* The batch loops                                                         *)
(*   "v2"      georeference_images, src/georeference_images.py             *)
(*   "v1"      georeference_images, src/Drone_data/georeference_images.py  *)
(*   "glitter" georeference_images_using_glitter, same file as "v1"        *)
(*                                                                         *)
(* One action is one iteration of the loop on the next row.  The row and   *)
(* what the file system and the libraries answer for it are inputs.  An    *)
(* exception that no try block of the loop catches leaves the function:    *)
(* pc becomes "aborted" and no further row is read.                        *)
(***************************************************************************)
\* every column read with [] as if GPS_NSats and GPS_HDop were too
RequiredColumnsAll ==
    {"filename", "ATT_Pitch", "ATT_Roll", "ATT_Yaw", "GPS_Longitude", "GPS_Latitude",
     "droneTime_MS", "GPS_Altitude", "GPS_NSats", "GPS_HDop"}

\* the columns read with imageDataRow[...] inside the try block
RequiredColumns ==
    {"filename", "ATT_Pitch", "ATT_Roll", "ATT_Yaw", "GPS_Longitude", "GPS_Latitude",
     "droneTime_MS", "GPS_Altitude"}

\* georeference_images_using_glitter does not read ATT_Yaw
RequiredColumnsGlitter == RequiredColumns \ {"ATT_Yaw"}

OptionalColumns == {"GPS_NSats", "GPS_HDop"}

AllColumns == RequiredColumns \cup OptionalColumns

\* the rows the model draws: a row has at most one defect (missing columns,
\* a non-finite altitude or a non-finite angle); the rows with missing
\* columns are rows of a.JPG, and a row that no loop can read has no capture
\* time; GPS_NSats and GPS_HDop hold the values that process_metadata writes
Rows ==
    LET all == { [ cols |-> c, filename |-> f, alt |-> a, roll |-> t[1], pitch |-> t[2],
                   yaw |-> t[3], date |-> d, nsats |-> 15, hdop |-> 1 ] :
                 c \in { AllColumns, AllColumns \ OptionalColumns }
                         \cup { AllColumns \ {col} : col \in RequiredColumns },
                 f \in {"a.JPG", "b.JPG"},
                 a \in { Num(100), NaN, Inf },
                 t \in { <<Num(Deg(3)), Num(Deg(5)), Num(Deg(10))>>,
                         <<NaN, Num(Deg(5)), Num(Deg(10))>>,
                         <<Num(Deg(3)), NaN, Num(Deg(10))>>,
                         <<Num(Deg(3)), Num(Deg(5)), NaN>> },
                 d \in {"none", "aware", "bad"} }
        defect(b) == IF b THEN 1 ELSE 0
    IN  { row \in all :
            /\ defect(row.cols # AllColumns) + defect(~IsFinite(row.alt))
                 + defect(~IsFinite(row.roll) \/ ~IsFinite(row.pitch) \/ ~IsFinite(row.yaw))
                 <= 1
            /\ row.cols # AllColumns => row.filename = "a.JPG"
            /\ ~(RequiredColumnsGlitter \subseteq row.cols) => row.date = "none" }

\* what lies at path.join(imageDirectory, filename)
BrightImage == [i \in 1..ImgLen |-> IF i = 1 THEN White ELSE Black]
Scene(exists, image, found) == [exists |-> exists, image |-> image, found |-> found]

NoEnv == [ scene |-> Scene(FALSE, NoImage, <<>>), ncWrite |-> "ok", tifWrite |-> "ok" ]

NcName(filename) == filename

\* metaData["image_filename"][:-4] + suffix + ".tif" (lines 275-276)
TifName(filename) == IF filename = "a.JPG" THEN "a.tif" ELSE "b.tif"

NotRun == [kind |-> "notrun", stage |-> "notrun", yaw |-> 0]

Call(alt, roll, pitch, yaw, cameraYaw) ==
    [called |-> TRUE, alt |-> alt, roll |-> roll, pitch |-> pitch, yaw |-> yaw,
     totalYaw |-> ComposeAttitude(roll, pitch, yaw, Deg(30), cameraYaw).totalYaw]

\* the row as the try block reads it: imageDataRow.get(..., 0) for the
\* optional columns
RowView(row) ==
    [ filename |-> row.filename, alt |-> row.alt, roll |-> row.roll, pitch |-> row.pitch,
      yaw |-> row.yaw, cols |-> row.cols,
      droneNSats |-> IF "GPS_NSats" \in row.cols THEN row.nsats ELSE 0,
      droneHDop |-> IF "GPS_HDop" \in row.cols THEN row.hdop ELSE 0 ]

\* the result of an iteration that ended at a `continue`
Skipped(idx, row, why, glit) ==
    [ idx |-> idx, row |-> RowView(row), outcome |-> why, glit |-> glit,
      call |-> [called |-> FALSE, alt |-> NaN, roll |-> NaN, pitch |-> NaN, yaw |-> NaN,
                totalYaw |-> NaN],
      dims |-> "none", wroteNc |-> FALSE, wroteTif |-> FALSE ]

\* the result of an iteration that reached do_georeference
Processed(idx, row, outcome, glit, call, dims, nc, tif) ==
    [ idx |-> idx, row |-> RowView(row), outcome |-> outcome, glit |-> glit, call |-> call,
      dims |-> dims, wroteNc |-> nc, wroteTif |-> tif ]

\* Dynamic Size Detection: the file's size if GDAL opened it, else the defaults
\* (gdal.Open of a file that is no image raises or returns None inside the try)
Dims(hasGdal, env) ==
    IF hasGdal /\ env.scene.exists /\ env.scene.image # NoImage
    THEN "file" ELSE "default"

\* a plausible slip: the override is applied whatever the estimator returned
YawForEngineAlways(glit, telemetryYaw) ==
    IF glit.kind # "notrun" THEN Num(glit.yaw) ELSE telemetryYaw

\* lines 201-207: glitter_yaw replaces droneYaw only when it is not None
YawForEngine(glit, telemetryYaw) ==
    IF glit.kind = "value" THEN Num(glit.yaw) ELSE telemetryYaw

\* lines 185-207 of "v2": the optional glitter correction, inside try/except
GlitterV2(cfg, row, env) ==
    IF cfg.enableGlitter /\ row.date # "none" /\ env.scene.exists
    THEN IF row.date = "bad" THEN GlRaise("date")
         ELSE CalcYawFromEllipse(env.scene.image, cfg.thresholdPct, env.scene.found,
                                 [ok |-> TRUE, v |-> Deg(140)])
    ELSE NotRun

\* DEFAULT_N_PIXELS_X, DEFAULT_N_PIXELS_Y
DEFAULT_N_PIXELS == <<1600, 1300>>

\* DEFAULT_ASPECT_RATIO = 1600 / 1300, as a ratio
DEFAULT_ASPECT_RATIO == <<16, 13>>

\* the variables of georeference_images that live across the iterations of
\* its loop, before the first iteration binds them
LocalsUnbound ==
    [ droneYaw |-> NaN, glitter_yaw |-> NotRun, current_n_pixels |-> <<0, 0>>,
      current_aspect |-> <<0, 0>>, imageDataArray |-> NoImage ]

\* lines 159-163: droneYaw is bound to the row's ATT_Yaw unless a column read
\* before it is missing
ReadRow(prev, row) ==
    IF {"filename", "ATT_Pitch", "ATT_Roll", "ATT_Yaw"} \subseteq row.cols
    THEN [prev EXCEPT !.droneYaw = row.yaw]
    ELSE prev

\* lines 196-207: glitter_yaw is bound when the estimator returned, and then
\* replaces droneYaw if it is not None
GlitterCorrection(prev, glit) ==
    [prev EXCEPT !.glitter_yaw = IF glit.kind \in {"value", "none"} THEN glit ELSE @,
                 !.droneYaw = YawForEngine(glit, @)]

\* the size detection without the assignments of lines 210-214
SizeDetectionNoReset(prev, hasGdal, scene) ==
    IF hasGdal /\ scene.exists /\ scene.image # NoImage
    THEN [prev EXCEPT !.current_n_pixels = <<Len(scene.image), 1>>,
                      !.current_aspect = <<Len(scene.image), 1>>,
                      !.imageDataArray = scene.image]
    ELSE prev

\* lines 209-226, Dynamic Size Detection: the defaults, replaced by the size,
\* the ratio and the first band of the image file if GDAL opens it (an image
\* of the model is one scan line)
SizeDetection(prev, hasGdal, scene) ==
    LET reset == [prev EXCEPT !.current_n_pixels = DEFAULT_N_PIXELS,
                              !.current_aspect = DEFAULT_ASPECT_RATIO,
                              !.imageDataArray = NoImage]
    IN  IF hasGdal /\ scene.exists /\ scene.image # NoImage
        THEN [reset EXCEPT !.current_n_pixels = <<Len(scene.image), 1>>,
                           !.current_aspect = <<Len(scene.image), 1>>,
                           !.imageDataArray = scene.image]
        ELSE reset

\* an iteration's result together with the image file it met and the
\* function's variables as the iteration leaves them
WithLocals(c, scene, loc) ==
    [ idx |-> c.idx, row |-> c.row, outcome |-> c.outcome, glit |-> c.glit, call |-> c.call,
      dims |-> c.dims, wroteNc |-> c.wroteNc, wroteTif |-> c.wroteTif,
      scene |-> scene, loc |-> loc ]

\* one iteration of "v2" (lines 152-276); prev holds the function's variables
\* as the previous iteration left them
BodyV2(cfg, idx, row, env, files, prev) ==
    IF ~(RequiredColumns \subseteq row.cols)
    THEN WithLocals(Skipped(idx, row, "skip_keyerror", NotRun), env.scene, ReadRow(prev, row))
    ELSE IF NcName(row.filename) \in files
    THEN WithLocals(Skipped(idx, row, "skip_exists", NotRun), env.scene, ReadRow(prev, row))
    ELSE IF ~IsFinite(row.alt)
    THEN WithLocals(Skipped(idx, row, "skip_altitude", NotRun), env.scene, ReadRow(prev, row))
    ELSE
      LET glit == GlitterV2(cfg, row, env)
          loc == SizeDetection(GlitterCorrection(ReadRow(prev, row), glit),
                               cfg.hasGdal, env.scene)
          call == Call(row.alt, row.roll, row.pitch, loc.droneYaw, cfg.cameraYaw)
          out == cfg.hasGdal \/ cfg.hasNetcdf
      IN  WithLocals(Processed(idx, row, "processed", glit, call, Dims(cfg.hasGdal, env),
                               out /\ cfg.hasNetcdf /\ env.ncWrite = "ok",
                               out /\ cfg.hasGdal /\ env.tifWrite = "ok"),
                     env.scene, loc)

\* one iteration of "v1" (lines 197-316): write_netcdf and do_image_geotransform
\* of this file have no try block, so their exceptions leave the loop
BodyV1(cfg, idx, row, env, files) ==
    IF ~(RequiredColumns \subseteq row.cols) THEN Skipped(idx, row, "skip_keyerror", NotRun)
    ELSE IF NcName(row.filename) \in files THEN Skipped(idx, row, "skip_exists", NotRun)
    ELSE IF ~IsFinite(row.alt) THEN Skipped(idx, row, "skip_altitude", NotRun)
    ELSE
      LET call == Call(row.alt, row.roll, row.pitch, row.yaw, cfg.cameraYaw)
          dims == Dims(cfg.hasGdal, env)
          ncTried == cfg.hasNetcdf
          ncOk == ncTried /\ env.ncWrite = "ok"
          tifTried == cfg.hasGdal /\ (ncTried => ncOk)
          tifOk == tifTried /\ env.tifWrite = "ok"
      IN  IF ncTried /\ ~ncOk
          THEN Processed(idx, row, "raise_write_netcdf", NotRun, call, dims, FALSE, FALSE)
          ELSE IF tifTried /\ ~tifOk
          THEN Processed(idx, row, "raise_geotransform", NotRun, call, dims, ncOk, FALSE)
          ELSE Processed(idx, row, "processed", NotRun, call, dims, ncOk, tifOk)

\* one iteration of "glitter" (lines 330-430): the estimator is called outside
\* any try block and a missing estimate skips the image
BodyGlitter(cfg, idx, row, env) ==
    IF ~(RequiredColumnsGlitter \subseteq row.cols)
    THEN Skipped(idx, row, "skip_keyerror", NotRun)
    ELSE IF ~env.scene.exists THEN Skipped(idx, row, "skip_nofile", NotRun)
    ELSE IF row.date = "none" THEN Skipped(idx, row, "skip_nodate", NotRun)
    ELSE
      LET glit == CalcYawFromEllipse(env.scene.image, cfg.thresholdPct, env.scene.found,
                                     [ok |-> row.date = "aware", v |-> Deg(140)])
      IN  IF glit.kind = "raise" THEN Skipped(idx, row, "raise_glitter", glit)
          ELSE IF ~IsFinite(row.alt) THEN Skipped(idx, row, "skip_altitude", glit)
          ELSE IF glit.kind = "none" THEN Skipped(idx, row, "skip_noglitter", glit)
          ELSE
            LET call == Call(row.alt, row.roll, row.pitch, Num(glit.yaw), cfg.cameraYaw)
                dims == Dims(cfg.hasGdal, env)
                ncTried == cfg.hasNetcdf
                ncOk == ncTried /\ env.ncWrite = "ok"
                tifTried == cfg.hasGdal /\ (ncTried => ncOk)
                tifOk == tifTried /\ env.tifWrite = "ok"
            IN  IF ncTried /\ ~ncOk
                THEN Processed(idx, row, "raise_write_netcdf", glit, call, dims, FALSE, FALSE)
                ELSE IF tifTried /\ ~tifOk
                THEN Processed(idx, row, "raise_geotransform", glit, call, dims, ncOk, FALSE)
                ELSE Processed(idx, row, "processed", glit, call, dims, ncOk, tifOk)


\* the answers of the environment an iteration can depend on: the image file
\* where the loop looks at it, the outcome of a write where the library for
\* it was imported
EnvsV(variant, row, files) ==
    LET reads == IF variant = "glitter" THEN RequiredColumnsGlitter \subseteq row.cols
                 ELSE (RequiredColumns \subseteq row.cols)
                      /\ NcName(row.filename) \notin files /\ IsFinite(row.alt)
        looks == \/ variant = "glitter"
                 \/ batch.hasGdal
                 \/ (variant = "v2" /\ batch.enableGlitter /\ row.date # "none")
        scenes == { Scene(FALSE, NoImage, <<>>),
                    Scene(TRUE, NoImage, <<>>),
                    Scene(TRUE, [i \in 1..ImgLen |-> <<99, 99, 99>>], <<>>),
                    Scene(TRUE, BrightImage, <<Contour(6, Deg(30)), Contour(8, Deg(120))>>),
                    Scene(TRUE, BrightImage, <<Contour(3, Deg(10))>>) }
        envs == { [ scene |-> s, ncWrite |-> w[1], tifWrite |-> w[2] ] :
                  s \in scenes, w \in { <<"ok", "ok">>, <<"fail", "ok">>, <<"ok", "fail">> } }
    IN  IF ~reads THEN {NoEnv}
        ELSE { env \in envs :
                 /\ ~looks => env.scene = NoEnv.scene
                 /\ ~batch.hasNetcdf => env.ncWrite = "ok"
                 /\ ~batch.hasGdal => env.tifWrite = "ok" }

\* the state after an iteration
Iterate(c) ==
    /\ cur' = c
    /\ outFiles' = outFiles \cup (IF c.wroteNc THEN {NcName(c.row.filename)} ELSE {})
                              \cup (IF c.wroteTif THEN {TifName(c.row.filename)} ELSE {})
    /\ IF c.outcome \in {"raise_glitter", "raise_write_netcdf", "raise_geotransform"}
       THEN pc' = "aborted" /\ r' = r
       ELSE pc' = "loop" /\ r' = r + 1
    /\ UNCHANGED <<batch, att, gl, kal, pipe, numpy, img>>

GeoreferenceImages ==
    /\ pc = "loop" /\ batch.variant = "v2" /\ r <= batch.nRows
    /\ \E row \in Rows : \E env \in EnvsV("v2", row, outFiles) :
          Iterate(BodyV2(batch, r, row, env, outFiles, cur.loc))

DroneDataGeoreferenceImages ==
    /\ pc = "loop" /\ batch.variant = "v1" /\ r <= batch.nRows
    /\ \E row \in Rows : \E env \in EnvsV("v1", row, outFiles) :
          Iterate(BodyV1(batch, r, row, env, outFiles))

GeoreferenceImagesUsingGlitter ==
    /\ pc = "loop" /\ batch.variant = "glitter" /\ r <= batch.nRows
    /\ \E row \in Rows : \E env \in EnvsV("glitter", row, outFiles) :
          Iterate(BodyGlitter(batch, r, row, env))

\* range(len(imageData)) is exhausted: the function returns
LoopEnd ==
    /\ pc = "loop" /\ r > batch.nRows
    /\ pc' = "done"
    /\ UNCHANGED <<batch, r, outFiles, cur, att, gl, kal, pipe, numpy, img>>

CurIdle == [idx |-> 0, loc |-> LocalsUnbound]

KalIdle == [kpc |-> "idle"]

PipeIdle == [ppc |-> "idle"]

(***************************************************************************)
(* temporal_smooth_kalman (kalman_smoother.py)                             *)
(*                                                                         *)
(* Longitude and latitude are integers in units of 1/UnitsPerDeg degree.   *)
(* Metres, seconds and their products are fixed-point numbers: the integer *)
(* n stands for n / FixScale, and every product is rounded to nearest.     *)
(* droneTime_MS holds whole seconds, as process_metadata writes it.        *)
(* filterpy's KalmanFilter.predict / update and Q_discrete_white_noise are *)
(* modelled from that library's definitions.                               *)
(***************************************************************************)
FixScale == 100
UnitsPerDeg == 100000

LAT_TO_CM == 11113292      \* LAT_TO_M = 111132.92, in centimetres
LON_TO_CM == 11131990      \* LON_TO_M = 111319.9, in centimetres
GpsNoiseStd == 3           \* gps_noise_std = 3.0
InitPosStd == 10           \* kf.P = diag(10^2, 10^2, 5^2, 5^2)
InitVelStd == 5

\* a / b rounded to nearest, b > 0
RDiv(a, b) == (2 * a + b) \div (2 * b)

Fx(n) == n * FixScale

RECURSIVE SumTo(_, _)
SumTo(f, n) == IF n = 0 THEN 0 ELSE f[n] + SumTo(f, n - 1)

\* the vector <<f[1], ..., f[n]>> and the matrix of the rows f[1], ..., f[n]
RECURSIVE Vec(_, _)
Vec(f, n) == IF n = 0 THEN <<>> ELSE Append(Vec(f, n - 1), f[n])

RECURSIVE Mat(_, _, _)
Mat(f, n, m) == IF n = 0 THEN <<>> ELSE Append(Mat(f, n - 1, m), Vec(f[n], m))

Transpose(A) == Mat([j \in 1..Len(A[1]) |-> [i \in 1..Len(A) |-> A[i][j]]], Len(A[1]), Len(A))

\* the matrix product of fixed-point matrices
MatMul(A, B) ==
    Mat([i \in 1..Len(A) |->
            [j \in 1..Len(B[1]) |->
                RDiv(SumTo([k \in 1..Len(B) |-> A[i][k] * B[k][j]], Len(B)), FixScale)]],
        Len(A), Len(B[1]))

MatAdd(A, B) ==
    Mat([i \in 1..Len(A) |-> [j \in 1..Len(A[1]) |-> A[i][j] + B[i][j]]], Len(A), Len(A[1]))
MatSub(A, B) ==
    Mat([i \in 1..Len(A) |-> [j \in 1..Len(A[1]) |-> A[i][j] - B[i][j]]], Len(A), Len(A[1]))

MatVec(A, x) ==
    Vec([i \in 1..Len(A) |-> RDiv(SumTo([k \in 1..Len(x) |-> A[i][k] * x[k]], Len(x)), FixScale)],
        Len(A))

Diag4(a, b, c, d) ==
    << <<a, 0, 0, 0>>, <<0, b, 0, 0>>, <<0, 0, c, 0>>, <<0, 0, 0, d>> >>

Identity4 == Diag4(Fx(1), Fx(1), Fx(1), Fx(1))
Zero4 == Diag4(0, 0, 0, 0)

\* kf.H
MeasurementMatrix == << <<Fx(1), 0, 0, 0>>, <<0, Fx(1), 0, 0>> >>

\* kf.R = diag(gps_noise_std^2, gps_noise_std^2)
MeasurementNoise ==
    << <<Fx(GpsNoiseStd * GpsNoiseStd), 0>>, <<0, Fx(GpsNoiseStd * GpsNoiseStd)>> >>

\* a plausible slip: a repeated timestamp is advanced by one second
TransitionMatrixMinDt(dt) ==
    LET d == IF dt = 0 THEN 1 ELSE dt
    IN  << <<Fx(1), 0, Fx(d), 0>>, <<0, Fx(1), 0, Fx(d)>>,
           <<0, 0, Fx(1), 0>>, <<0, 0, 0, Fx(1)>> >>

\* kf.F for a time step of dt seconds (lines 82-85)
TransitionMatrix(dt) ==
    << <<Fx(1), 0, Fx(dt), 0>>, <<0, Fx(1), 0, Fx(dt)>>,
       <<0, 0, Fx(1), 0>>, <<0, 0, 0, Fx(1)>> >>

\* Q_discrete_white_noise(dim=2, dt=dt, var=q_std**2, block_size=2), q_std = 0.1:
\* block_diag(Qb, Qb) * var with Qb = [[dt^4/4, dt^3/2], [dt^3/2, dt^2]]
ProcessNoise(dt) ==
    LET q11 == RDiv(dt * dt * dt * dt * FixScale, 400)
        q12 == RDiv(dt * dt * dt * FixScale, 200)
        q22 == RDiv(dt * dt * FixScale, 100)
    IN  << <<q11, q12, 0, 0>>, <<q12, q22, 0, 0>>,
           <<0, 0, q11, q12>>, <<0, 0, q12, q22>> >>

\* KalmanFilter.predict: x = F x (MatVec(F, x)), P = F P F' + Q
PredictP(F, P, Q) == MatAdd(MatMul(MatMul(F, P), Transpose(F)), Q)

\* KalmanFilter.update(z): the gain K = P H' (H P H' + R)^-1, computed as
\* P H' adj(S) / det(S)
KalmanGain(P) ==
    LET H == MeasurementMatrix
        PHT == MatMul(P, Transpose(H))
        S == MatAdd(MatMul(H, PHT), MeasurementNoise)
        det == S[1][1] * S[2][2] - S[1][2] * S[2][1]
        adj == << <<S[2][2], -S[1][2]>>, <<-S[2][1], S[1][1]>> >>
    IN  Mat([i \in 1..4 |->
                [j \in 1..2 |->
                    RDiv(PHT[i][1] * adj[1][j] + PHT[i][2] * adj[2][j], RDiv(det, FixScale))]],
            4, 2)

\* x = x + K (z - H x)
UpdateX(x, P, z) ==
    LET Hx == MatVec(MeasurementMatrix, x)
        y == <<z[1] - Hx[1], z[2] - Hx[2]>>
        Ky == MatVec(KalmanGain(P), y)
    IN  <<x[1] + Ky[1], x[2] + Ky[2], x[3] + Ky[3], x[4] + Ky[4]>>

\* P = (I - K H) P (I - K H)' + K R K'
UpdateP(P) ==
    LET K == KalmanGain(P)
        IKH == MatSub(Identity4, MatMul(K, MeasurementMatrix))
    IN  MatAdd(MatMul(MatMul(IKH, P), Transpose(IKH)),
               MatMul(MatMul(K, MeasurementNoise), Transpose(K)))

\* floor of the square root, by bisection: lo * lo <= n < hi * hi
RECURSIVE ISqrtFrom(_, _, _)
ISqrtFrom(n, lo, hi) ==
    IF hi - lo <= 1 THEN lo
    ELSE LET mid == (lo + hi) \div 2
         IN  IF mid * mid <= n THEN ISqrtFrom(n, mid, hi) ELSE ISqrtFrom(n, lo, mid)

\* np.cos(mean_lat_rad), in thousandths: the cosine of the whole degree of
\* latitude, interpolated in a table of ten-degree steps
CosLatK(lat) ==
    LET d == Abs(lat) \div UnitsPerDeg
        tbl == <<1000, 985, 940, 866, 766, 643, 500, 342, 174, 0, 0>>
        lo == (d \div 10) + 1
    IN  IF d >= 90 THEN 0
        ELSE tbl[lo] - RDiv((tbl[lo] - tbl[lo + 1]) * (d % 10), 10)

\* lon_to_m_at_lat = LON_TO_M * cos(mean_lat_rad), centimetres per degree, with
\* mean_lat_rad from df['GPS_Latitude'].mean()
LonToCmAtLat(traj) ==
    LET mean == RDiv(SumTo([k \in 1..Len(traj) |-> traj[k].lat], Len(traj)), Len(traj))
    IN  RDiv((LON_TO_CM \div 100) * CosLatK(mean), 10)

CmToFx(cm) == RDiv(cm * FixScale, 100)

\* df['x_m'], df['y_m']: the measurement of sample k in the local plane
MeasureX(traj, k) ==
    CmToFx(RDiv((traj[k].lon - traj[1].lon) * (LonToCmAtLat(traj) \div 100), UnitsPerDeg \div 100))
MeasureY(traj, k) ==
    CmToFx(RDiv((traj[k].lat - traj[1].lat) * (LAT_TO_CM \div 100), UnitsPerDeg \div 100))

\* dts = time_seconds.diff().fillna(0), in seconds
Dts(traj) ==
    Vec([k \in 1..Len(traj) |-> IF k = 1 THEN 0 ELSE (traj[k].t - traj[k - 1].t) \div 1000],
        Len(traj))

\* the trajectories the model draws: a first sample and steps from it
Sample(t, lon, lat) == [t |-> t, lon |-> lon, lat |-> lat]
StepInputs ==
    { [dt |-> d, dlon |-> m[1], dlat |-> m[2]] :
      d \in {-1000, 0, 1000, 2000}, m \in {<<0, 0>>, <<2, 3>>} }
    \cup { [dt |-> 1000, dlon |-> 0, dlat |-> 18] }

RECURSIVE Trajectories(_)
Trajectories(n) ==
    IF n = 1 THEN { <<Sample(10000, 3600000, 15 * UnitsPerDeg - 3)>> }
    ELSE LET shorter == Trajectories(n - 1)
         IN  shorter \cup
             { Append(tr, Sample(tr[Len(tr)].t + s.dt, tr[Len(tr)].lon + s.dlon,
                                 tr[Len(tr)].lat + s.dlat)) :
               tr \in {q \in shorter : Len(q) = n - 1}, s \in StepInputs }

\* the table of the input file: the samples with the columns the smoother
\* copies (row k carries values that tell it from the other rows)
InputTable(traj) ==
    Vec([k \in 1..Len(traj) |->
            [ filename |-> k, GPS_Longitude |-> traj[k].lon, GPS_Latitude |-> traj[k].lat,
              GPS_Altitude |-> 100 + k, ATT_Roll |-> k, ATT_Pitch |-> -k, ATT_Yaw |-> 10 * k,
              droneTime_MS |-> traj[k].t, GPS_NSats |-> 15, GPS_HDop |-> 1 ]], Len(traj))

\* the files temporal_smooth_kalman is called on
Paths == {"processed_metadata.csv", "kalman_smoothed_metadata.csv"}
File(rows) == [exists |-> TRUE, rows |-> rows]

\* kf.P = np.diag([10.**2, 10.**2, 5.**2, 5.**2])
InitialCovariance ==
    Diag4(Fx(InitPosStd * InitPosStd), Fx(InitPosStd * InitPosStd),
          Fx(InitVelStd * InitVelStd), Fx(InitVelStd * InitVelStd))

\* df[['x_m', 'y_m']].values
Measurements(traj) ==
    Vec([k \in 1..Len(traj) |-> <<MeasureX(traj, k), MeasureY(traj, k)>>], Len(traj))

\* lines 82-92: F and Q for the time step, then predict, then update
FilterStep(x, P, z, dt) ==
    LET F == TransitionMatrix(dt)
        Q == ProcessNoise(dt)
        xp == MatVec(F, x)
        Pp == PredictP(F, P, Q)
    IN  [ F |-> F, Q |-> Q, xPred |-> xp, PPred |-> Pp,
          x |-> UpdateX(xp, Pp, z), P |-> UpdateP(Pp) ]

\* the loop test with the first sample treated like the others
IsFirstNever(i) == FALSE

\* if i == 0 (line 76)
IsFirst(i) == i = 0

\* the longitude offset alone, the origin not added back
KalmanLonNoOrigin(traj, x) ==
    RDiv(x * (UnitsPerDeg \div 100), CmToFx(LonToCmAtLat(traj) \div 100))

\* lines 107-108: local metres back to longitude and latitude
KalmanLon(traj, x) ==
    RDiv(x * (UnitsPerDeg \div 100), CmToFx(LonToCmAtLat(traj) \div 100)) + traj[1].lon
KalmanLat(traj, y) ==
    RDiv(y * (UnitsPerDeg \div 100), CmToFx(LAT_TO_CM \div 100)) + traj[1].lat

\* lines 117-123 without the overwrite of the position columns
FinalTableRaw(df, traj, dts, sx, sy, speeds) ==
    Vec([k \in 1..Len(df) |->
            [ filename |-> df[k].filename,
              GPS_Longitude |-> df[k].GPS_Longitude,
              GPS_Latitude |-> df[k].GPS_Latitude,
              GPS_Altitude |-> df[k].GPS_Altitude, ATT_Roll |-> df[k].ATT_Roll,
              ATT_Pitch |-> df[k].ATT_Pitch, ATT_Yaw |-> df[k].ATT_Yaw,
              droneTime_MS |-> df[k].droneTime_MS, GPS_NSats |-> df[k].GPS_NSats,
              GPS_HDop |-> df[k].GPS_HDop, dt |-> dts[k], Speed_m_s |-> speeds[k] ]], Len(df))

\* lines 103-123: final_df, the rows of df in their order with the position
\* columns overwritten and dt and Speed_m_s added
FinalTable(df, traj, dts, sx, sy, speeds) ==
    Vec([k \in 1..Len(df) |->
            [ filename |-> df[k].filename,
              GPS_Longitude |-> KalmanLon(traj, sx[k]),
              GPS_Latitude |-> KalmanLat(traj, sy[k]),
              GPS_Altitude |-> df[k].GPS_Altitude, ATT_Roll |-> df[k].ATT_Roll,
              ATT_Pitch |-> df[k].ATT_Pitch, ATT_Yaw |-> df[k].ATT_Yaw,
              droneTime_MS |-> df[k].droneTime_MS, GPS_NSats |-> df[k].GPS_NSats,
              GPS_HDop |-> df[k].GPS_HDop, dt |-> dts[k], Speed_m_s |-> speeds[k] ]], Len(df))

\* the loop of lines 73-100 as a fold: the filter state after the first k
\* samples, given the measurements and the time steps
RECURSIVE FilterAfter(_, _, _)
FilterAfter(zs, dts, k) ==
    IF k <= 1 THEN [x |-> <<zs[1][1], zs[1][2], 0, 0>>, P |-> InitialCovariance]
    ELSE LET prev == FilterAfter(zs, dts, k - 1)
             st == FilterStep(prev.x, prev.P, zs[k], dts[k])
         IN  [x |-> st.x, P |-> st.P]

\* what one whole call reports for sample k of the table traj
PassOutput(traj, k) ==
    LET zs == Measurements(traj)
        st == FilterAfter(zs, Dts(traj), k)
    IN  [ GPS_Longitude |-> KalmanLon(traj, IF k = 1 THEN zs[1][1] ELSE st.x[1]),
          GPS_Latitude |-> KalmanLat(traj, IF k = 1 THEN zs[1][2] ELSE st.x[2]),
          Speed_m_s |-> IF k = 1 THEN NaN
                        ELSE Num(ISqrtFrom(st.x[3] * st.x[3] + st.x[4] * st.x[4], 0, 46341)) ]

\* lines 20-22: the input file does not exist
KalmanNotFound ==
    /\ kal.kpc = "idle"
    /\ \E mp \in Paths, op \in Paths :
          kal' = [ kpc |-> "notfound", metadata_path |-> mp, output_path |-> op,
                   files0 |-> [q \in Paths |-> [exists |-> FALSE, rows |-> <<>>]],
                   files |-> [q \in Paths |-> [exists |-> FALSE, rows |-> <<>>]] ]
    /\ UNCHANGED <<att, gl, batch, r, pc, outFiles, cur, pipe, numpy, img>>

\* lines 25-71: read the table, compute dts and the local coordinates,
\* initialise the filter
KalmanStart ==
    /\ kal.kpc = "idle"
    /\ \E traj \in Trajectories(MaxSamples), op \in Paths :
          LET mp == "processed_metadata.csv"
              fs == [q \in Paths |-> IF q = mp THEN File(InputTable(traj))
                                     ELSE [exists |-> FALSE, rows |-> <<>>]]
          IN
          kal' = [ kpc |-> "loop", metadata_path |-> mp, output_path |-> op,
                   files0 |-> fs, files |-> fs, df |-> fs[mp].rows,
                   traj |-> traj, dts |-> Dts(traj), i |-> 0,
                   x |-> <<MeasureX(traj, 1), MeasureY(traj, 1), 0, 0>>,
                   P |-> InitialCovariance,
                   F |-> Identity4, Q |-> Zero4,
                   xPrior |-> <<0, 0, 0, 0>>, PPrior |-> Zero4,
                   xPred |-> <<0, 0, 0, 0>>, PPred |-> Zero4,
                   predicted |-> FALSE, updated |-> FALSE,
                   smoothed_x |-> <<>>, smoothed_y |-> <<>>,
                   calculated_speeds |-> <<NaN>>, out |-> <<>> ]
    /\ UNCHANGED <<att, gl, batch, r, pc, outFiles, cur, pipe, numpy, img>>

\* lines 73-100: one iteration of the filter loop on sample i (0-based)
KalmanStep ==
    /\ kal.kpc = "loop"
    /\ kal.i < Len(kal.traj)
    /\ LET k == kal.i + 1
           z == Measurements(kal.traj)[k]
           dt == kal.dts[k]
       IN  IF IsFirst(kal.i)
           THEN kal' = [kal EXCEPT !.i = k,
                                   !.smoothed_x = Append(@, z[1]),
                                   !.smoothed_y = Append(@, z[2])]
           ELSE LET st == FilterStep(kal.x, kal.P, z, dt)
                IN  kal' = [kal EXCEPT !.i = k, !.F = st.F, !.Q = st.Q,
                                       !.xPrior = kal.x, !.PPrior = kal.P,
                                       !.xPred = st.xPred, !.PPred = st.PPred,
                                       !.predicted = TRUE, !.updated = TRUE,
                                       !.x = st.x, !.P = st.P,
                                       !.smoothed_x = Append(@, st.x[1]),
                                       !.smoothed_y = Append(@, st.x[2]),
                                       !.calculated_speeds =
                                           Append(@, Num(ISqrtFrom(st.x[3] * st.x[3]
                                                                    + st.x[4] * st.x[4],
                                                                   0, 46341)))]
    /\ UNCHANGED <<att, gl, batch, r, pc, outFiles, cur, pipe, numpy, img>>

\* lines 102-125: convert back to longitude / latitude and write the table
\* to output_path
KalmanFinish ==
    /\ kal.kpc = "loop"
    /\ kal.i = Len(kal.traj)
    /\ Len(kal.calculated_speeds) = Len(kal.traj)
    /\ LET final_df == FinalTable(kal.df, kal.traj, kal.dts, kal.smoothed_x,
                                  kal.smoothed_y, kal.calculated_speeds)
       IN  kal' = [kal EXCEPT !.kpc = "written", !.out = final_df,
                              !.files = [@ EXCEPT ![kal.output_path] = File(final_df)]]
    /\ UNCHANGED <<att, gl, batch, r, pc, outFiles, cur, pipe, numpy, img>>

NextKalman ==
    \/ KalmanNotFound
    \/ KalmanStart
    \/ KalmanStep
    \/ KalmanFinish


(***************************************************************************)
(* do_georeference as a whole (georeference_images.py, lines 87-114)       *)
(*                                                                         *)
(* Angles are in quanta, distances in whole metres, longitude and latitude *)
(* in units of 1/UnitsPerDeg degree.  The functions of georef_tools, which *)
(* the repository imports but whose file is not among its sources, follow  *)
(* sections 4.2 and 4.3 of the specification.  A raster is a sequence over *)
(* its first axis of sequences over its second axis; write_netcdf stores   *)
(* it with the dimensions (pixelsX, pixelsY).                              *)
(***************************************************************************)
\* a / b rounded to nearest, halves away from zero, b > 0
RDivS(a, b) == IF a < 0 THEN -RDiv(-a, b) ELSE RDiv(a, b)

\* np.sin and np.cos of an angle in quanta, in thousandths: a table of
\* ten-degree steps, interpolated
SinQuarter(x) ==
    LET tbl == <<0, 174, 342, 500, 643, 766, 866, 940, 985, 1000, 1000>>
        lo == (x \div Deg(10)) + 1
    IN  tbl[lo] + RDiv((tbl[lo + 1] - tbl[lo]) * (x % Deg(10)), Deg(10))

SinM(a) ==
    LET rr == a % Deg(360)
    IN  IF rr <= Deg(90) THEN SinQuarter(rr)
        ELSE IF rr <= Deg(180) THEN SinQuarter(Deg(180) - rr)
        ELSE IF rr <= Deg(270) THEN -SinQuarter(rr - Deg(180))
        ELSE -SinQuarter(Deg(360) - rr)


\* what np.tan(np.radians(a)) returns at a = +-90 degrees, in thousandths: a
\* finite number far beyond every other value (1.6e16 in doubles)
TanHorizon == 1000000

\* np.tan(np.radians(a)) for an angle in quanta, in thousandths: a table of
\* five-degree steps, interpolated, odd and of period 180 degrees
TanM(a) ==
    LET tbl == <<0, 87, 176, 268, 364, 466, 577, 700, 839, 1000, 1192, 1428, 1732,
                 2145, 2747, 3732, 5671, 11430, TanHorizon>>
        m == Abs(a) % Deg(180)
        x == IF m > Deg(90) THEN Deg(180) - m ELSE m
        lo == (x \div Deg(5)) + 1
        t == IF x = Deg(90) THEN TanHorizon
             ELSE tbl[lo] + RDiv((tbl[lo + 1] - tbl[lo]) * (x % Deg(5)), Deg(5))
        sgn == (IF a < 0 THEN -1 ELSE 1) * (IF m > Deg(90) THEN -1 ELSE 1)
    IN  sgn * t

\* georef_tools.calculate_image_pixel_angles: the angular offset of pixel i
\* (from 0) of n across the field of view fov; the centre pixel has offset 0
PixelAngle(i, n, fov) == RDivS((i - (n \div 2)) * fov, n)

\* altitude * tan(radians(angle)), in metres
GroundDistance(altitude, angle) == RDivS(altitude * TanM(angle), 1000)

\* georef_tools.rotate_coordinate: the 2-D rotation by totalYaw
RotateCoordinate(x, y, yaw) ==
    << RDivS(x * SinM(yaw + Deg(90)) - y * SinM(yaw), 1000),
       RDivS(x * SinM(yaw) + y * SinM(yaw + Deg(90)), 1000) >>

\* georef_tools.lonlat_add_metres: the local tangent plane at the origin
LonLatAddMetres(x, y, origin) ==
    LET perLat == LAT_TO_CM \div 10000
        perLon == RDivS((LON_TO_CM \div 10000) * CosLatK(origin[2]), 1000)
    IN  << origin[1] + RDivS(x * (UnitsPerDeg \div 100), perLon),
           origin[2] + RDivS(y * (UnitsPerDeg \div 100), perLat) >>

\* steps 2-4 of the projection and the conversion, for one pointing direction
ProjectAngles(origin, altitude, angleX, angleY, yaw) ==
    LET xy == RotateCoordinate(GroundDistance(altitude, angleX),
                               GroundDistance(altitude, angleY), yaw)
    IN  LonLatAddMetres(xy[1], xy[2], origin)

\* georef_tools.find_image_reference_lonlats: the same steps at the centre and
\* at the four corners of the field of view, in the order centre, top left,
\* top right, bottom left, bottom right
FindImageReferenceLonLats(origin, altitude, roll, pitch, yaw, hFov, vFov) ==
    LET at(dx, dy) == ProjectAngles(origin, altitude, roll + dx, pitch + dy, yaw)
        h == hFov \div 2
        v == vFov \div 2
    IN  << at(0, 0), at(-h, v), at(h, v), at(-h, -v), at(h, -v) >>

\* np.fliplr in the place of np.flipud
FlipLr(raster) ==
    [rw \in 1..Len(raster) |->
        [c \in 1..Len(raster[rw]) |-> raster[rw][Len(raster[rw]) + 1 - c]]]

\* np.flipud: m[::-1, ...]
FlipUd(raster) == [rw \in 1..Len(raster) |-> raster[Len(raster) + 1 - rw]]

\* do_georeference: aspectRatio is the pair <<numerator, denominator>>
DoGeoreferenceResult(droneLonLat, droneAltitude, droneRoll, dronePitch, droneYaw, cameraPitch, cameraYaw, nPixelsX, nPixelsY, hFov, aspectRatio) ==
    LET totalImagePitch == RDivS(TotalImagePitch(dronePitch, droneRoll, cameraPitch, cameraYaw), 1000)
        totalImageRoll == RDivS(TotalImageRoll(dronePitch, droneRoll, cameraYaw), 1000)
        totalImageYaw == TotalImageYaw(droneYaw, cameraYaw)
        vFov == RDivS(hFov * aspectRatio[2], aspectRatio[1])
        imageRefLonLats ==
            FindImageReferenceLonLats(droneLonLat, droneAltitude, totalImageRoll,
                                      totalImagePitch, totalImageYaw, hFov, vFov)
        pixelAnglesX == [i \in 1..nPixelsX |-> PixelAngle(i - 1, nPixelsX, hFov) + totalImageRoll]
        pixelAnglesY == [j \in 1..nPixelsY |-> PixelAngle(j - 1, nPixelsY, vFov) + totalImagePitch]
        lonlat == [i \in 1..nPixelsX |-> [j \in 1..nPixelsY |->
                      ProjectAngles(droneLonLat, droneAltitude, pixelAnglesX[i],
                                    pixelAnglesY[j], totalImageYaw)]]
        lons == Mat([i \in 1..nPixelsX |-> [j \in 1..nPixelsY |-> lonlat[i][j][1]]],
                    nPixelsX, nPixelsY)
        lats == Mat([i \in 1..nPixelsX |-> [j \in 1..nPixelsY |-> lonlat[i][j][2]]],
                    nPixelsX, nPixelsY)
    IN  [ totalImagePitch |-> totalImagePitch, totalImageRoll |-> totalImageRoll,
          totalImageYaw |-> totalImageYaw, vFov |-> vFov,
          pixelAnglesX |-> Vec(pixelAnglesX, nPixelsX),
          pixelAnglesY |-> Vec(pixelAnglesY, nPixelsY),
          unflippedLons |-> lons, unflippedLats |-> lats,
          lons |-> Mat(FlipUd(lons), nPixelsX, nPixelsY),
          lats |-> Mat(FlipUd(lats), nPixelsX, nPixelsY),
          imageRefLonLats |-> imageRefLonLats,
          warnings |-> {} ]

DEFAULT_HORIZONTAL_FOV == Deg(82)

\* one call of do_georeference
DoGeoreference ==
    /\ att.stage = "idle"
    /\ \E origin \in { <<0, 0>>, <<3600000, 1200000>> }, nx \in 1..MaxPixels, ny \in 1..MaxPixels,
          droneRoll \in { 0, Deg(5) }, dronePitch \in { 0, Deg(-5) },
          droneYaw \in { 0, Deg(90) }, cameraPitch \in { Deg(-90), 0, Deg(30) },
          cameraYaw \in { 0, Deg(90) } :
        \E aspect \in {DEFAULT_ASPECT_RATIO, <<nx, ny>>} :
          att' = [ stage |-> "georeferenced", droneLonLat |-> origin, droneAltitude |-> 100,
                   droneRoll |-> droneRoll, dronePitch |-> dronePitch, droneYaw |-> droneYaw,
                   cameraPitch |-> cameraPitch, cameraYaw |-> cameraYaw,
                   nPixelsX |-> nx, nPixelsY |-> ny, hFov |-> DEFAULT_HORIZONTAL_FOV,
                   aspectRatio |-> aspect,
                   res |-> DoGeoreferenceResult(origin, 100, droneRoll, dronePitch, droneYaw,
                                                cameraPitch, cameraYaw, nx, ny,
                                                DEFAULT_HORIZONTAL_FOV, aspect) ]
    /\ UNCHANGED <<gl, batch, r, pc, outFiles, cur, kal, pipe, numpy, img>>


(***************************************************************************)
(* run_pipeline (pipeline.py)                                              *)
(*                                                                         *)
(* A file is "absent", "stale" (left by an earlier run) or "fresh"         *)
(* (written by this run).  What a stage does with its input is an input:   *)
(* it writes its output, or it raises, and georeference_images may also    *)
(* return with no GeoTIFF written (every row skipped, or every transform   *)
(* failed inside its try block).                                           *)
(***************************************************************************)
METADATA_CSV == "image_metadata.csv"
PROCESSED_CSV == "processed_metadata.csv"
SMOOTHED_CSV == "kalman_smoothed_metadata.csv"
NC_FILES == "final_research_output/*_final.nc"
TIF_FILES == "final_research_output/*_final.tif"
MOSAIC_OUTPUT_FILE == "final_mission_mosaic.tif"

\* os.path.exists / glob.glob finds something
Exists(fs, f) == fs[f] # "absent"

\* the result of a stage: the files after it and whether it raised
StageResult(fs, raised) == [fs |-> fs, raised |-> raised]

\* process_metadata.process_metadata (process_metadata.py, lines 31-112)
ProcessMetadata(fs, outcome) ==
    IF ~Exists(fs, METADATA_CSV) THEN StageResult(fs, FALSE)
    ELSE IF outcome = "raise" THEN StageResult(fs, TRUE)
    ELSE StageResult([fs EXCEPT ![PROCESSED_CSV] = "fresh"], FALSE)

\* kalman_smoother.temporal_smooth_kalman(PROCESSED_CSV, SMOOTHED_CSV)
TemporalSmoothKalman(fs, outcome) ==
    IF ~Exists(fs, PROCESSED_CSV) THEN StageResult(fs, FALSE)
    ELSE IF outcome = "raise" THEN StageResult(fs, TRUE)
    ELSE StageResult([fs EXCEPT ![SMOOTHED_CSV] = "fresh"], FALSE)

\* georeference_images.georeference_images(...) of lines 111-120
GeoreferenceStage(fs, outcome) ==
    IF outcome = "raise" THEN StageResult(fs, TRUE)
    ELSE IF outcome = "none" THEN StageResult(fs, FALSE)
    ELSE StageResult([fs EXCEPT ![NC_FILES] = "fresh", ![TIF_FILES] = "fresh"], FALSE)

\* run_mosaic_step (lines 46-75): gdal.Warp sits in a try block
RunMosaicStep(fs, outcome) ==
    IF ~Exists(fs, TIF_FILES) THEN StageResult(fs, FALSE)
    ELSE IF outcome = "raise" THEN StageResult(fs, FALSE)
    ELSE StageResult([fs EXCEPT ![MOSAIC_OUTPUT_FILE] = "fresh"], FALSE)

\* the pipeline after a stage: left by the exception, returned by the test
\* that follows the stage, or on to the next stage
AfterStage(stage, res, ok, next) ==
    [ ppc |-> IF res.raised THEN "raised" ELSE IF ok THEN next ELSE "returned",
      fs |-> res.fs,
      ran |-> Append(pipe.ran, stage),
      consumed |-> pipe.consumed ]

\* lines 83-94, Step 1
PipelineStep1 ==
    /\ pipe.ppc = "start"
    /\ IF ~Exists(pipe.fs, METADATA_CSV)
       THEN pipe' = [pipe EXCEPT !.ppc = "returned"]
       ELSE \E outcome \in {"ok", "raise"} :
               LET res == ProcessMetadata(pipe.fs, outcome)
               IN  pipe' = AfterStage("metadata", res, Exists(res.fs, PROCESSED_CSV), "step2")
    /\ UNCHANGED <<att, gl, batch, r, pc, outFiles, cur, kal, numpy, img>>

\* lines 96-102, Step 2
PipelineStep2 ==
    /\ pipe.ppc = "step2"
    /\ \E outcome \in {"ok", "raise"} :
          LET res == TemporalSmoothKalman(pipe.fs, outcome)
          IN  pipe' = AfterStage("kalman", res, Exists(res.fs, SMOOTHED_CSV), "step3")
    /\ UNCHANGED <<att, gl, batch, r, pc, outFiles, cur, kal, numpy, img>>

\* lines 104-120, Step 3: the smoothed table is read and georeferenced
PipelineStep3 ==
    /\ pipe.ppc = "step3"
    /\ \E outcome \in {"tifs", "none", "raise"} :
          LET res == GeoreferenceStage(pipe.fs, outcome)
          IN  pipe' = [AfterStage("georeference", res, TRUE, "step4")
                          EXCEPT !.consumed = pipe.fs[SMOOTHED_CSV]]
    /\ UNCHANGED <<att, gl, batch, r, pc, outFiles, cur, kal, numpy, img>>

\* lines 122-128, Step 4
PipelineStep4 ==
    /\ pipe.ppc = "step4"
    /\ \E outcome \in {"ok", "raise"} :
          LET res == RunMosaicStep(pipe.fs, outcome)
          IN  pipe' = AfterStage("mosaic", res, TRUE, "complete")
    /\ UNCHANGED <<att, gl, batch, r, pc, outFiles, cur, kal, numpy, img>>

(***************************************************************************)
(* Orientation from the image header: parse_dji_xmp of smart_merge.py and  *)
(* of image_data_extraction.py, and the loop body of extract_image_data.   *)
(* The first 100000 bytes of a file are a sequence of attributes           *)
(* name="text"; an angle is an integer number of tenths of a degree.       *)
(* None is Python's None, Float(v) a Python float.                         *)
(***************************************************************************)
ImgIdle == [ipc |-> "idle"]

None == [kind |-> "None", v |-> 0]

Float(v) == [kind |-> "float", v |-> v]

Axes == {"Roll", "Pitch", "Yaw"}

\* float(content[start:end]): the texts the model draws, ValueError for "abc"
ParseFloat(text) ==
    CASE text = "0.0" -> Float(0)
      [] text = "12.5" -> Float(125)
      [] text = "-90.0" -> Float(0 - 900)
      [] OTHER -> None

\* find_tag: the first occurrence of tag_name=" in the content, the text up
\* to the next quote, parsed as a float; None when not found or not a float
FindTag(content, tag_name) ==
    LET hits == { i \in DOMAIN content : content[i].name = tag_name }
    IN  IF hits = {} THEN None
        ELSE LET start == CHOOSE i \in hits : \A j \in hits : i <= j
             IN  ParseFloat(content[start].text)

\* Python's a or b: a where a is true, else b; None and 0.0 are false
PyOr(a, b) == IF a.kind = "float" /\ a.v # 0 THEN a ELSE b

\* smart_merge.parse_dji_xmp; an exception of open or read leaves the defaults
ParseDjiXmp(file) ==
    LET xmp_data == [Pitch |-> 0, Roll |-> 0, Yaw |-> 0]
        roll == PyOr(FindTag(file.content, "FlightRollDegree"), FindTag(file.content, "GimbalRollDegree"))
        pitch == PyOr(FindTag(file.content, "FlightPitchDegree"), FindTag(file.content, "GimbalPitchDegree"))
        yaw == PyOr(FindTag(file.content, "FlightYawDegree"), FindTag(file.content, "GimbalYawDegree"))
    IN  IF ~file.readable THEN xmp_data
        ELSE [ Pitch |-> IF pitch # None THEN pitch.v ELSE xmp_data.Pitch,
               Roll |-> IF roll # None THEN roll.v ELSE xmp_data.Roll,
               Yaw |-> IF yaw # None THEN yaw.v ELSE xmp_data.Yaw ]

\* image_data_extraction.parse_dji_xmp
ExtractionParseDjiXmp(file) ==
    LET xmp_data == [Pitch |-> 0, Roll |-> 0, Yaw |-> 0]
        roll == PyOr(FindTag(file.content, "FlightRollDegree"), FindTag(file.content, "GimbalRollDegree"))
        pitch == PyOr(FindTag(file.content, "FlightPitchDegree"), FindTag(file.content, "GimbalPitchDegree"))
        yaw == PyOr(FindTag(file.content, "FlightYawDegree"), FindTag(file.content, "GimbalYawDegree"))
    IN  IF ~file.readable THEN xmp_data
        ELSE [ Pitch |-> IF pitch # None THEN pitch.v ELSE xmp_data.Pitch,
               Roll |-> IF roll # None THEN roll.v ELSE xmp_data.Roll,
               Yaw |-> IF yaw # None THEN yaw.v ELSE xmp_data.Yaw ]

\* the header with the given text for each of the six attributes
Header(flight, gimbal) ==
    LET attr(name, text) == IF text = "" THEN <<>> ELSE << [name |-> name, text |-> text] >>
    IN  attr("FlightRollDegree", flight["Roll"]) \o attr("GimbalRollDegree", gimbal["Roll"])
        \o attr("FlightPitchDegree", flight["Pitch"]) \o attr("GimbalPitchDegree", gimbal["Pitch"])
        \o attr("FlightYawDegree", flight["Yaw"]) \o attr("GimbalYawDegree", gimbal["Yaw"])

ImageFiles ==
    { [ content |-> Header(flight, gimbal), readable |-> rd ] :
      flight \in [Axes -> {"", "0.0", "12.5", "abc"}],
      gimbal \in [Axes -> {"", "-90.0", "abc"}], rd \in BOOLEAN }

\* smart_merge lines 107-127: the orientation of a matched image and its row
SmartMergeRow ==
    /\ img.ipc = "start"
    /\ LET orient == ParseDjiXmp(img.file)
       IN  img' = [ img EXCEPT !.ipc = "merged", !.orient = orient,
                      !.row = [ GPSLatitude |-> "mrk", Pitch |-> orient.Pitch,
                                Roll |-> orient.Roll, Yaw |-> orient.Yaw ] ]
    /\ UNCHANGED <<att, gl, batch, r, pc, outFiles, cur, kal, pipe, numpy>>

\* extract_image_data lines 167-203: one iteration of the loop over the files
ExtractImageData ==
    /\ img.ipc = "start"
    /\ LET row_data == [GPSLatitude |-> img.extracted.GPSLatitude, Pitch |-> 0, Roll |-> 0, Yaw |-> 0]
           xmp == ExtractionParseDjiXmp(img.file)
       IN  img' = [ img EXCEPT !.ipc = "extracted", !.orient = xmp,
                      !.row = IF xmp.Pitch # 0
                              THEN [row_data EXCEPT !.Pitch = xmp.Pitch, !.Roll = xmp.Roll,
                                                    !.Yaw = xmp.Yaw]
                              ELSE row_data ]
    /\ UNCHANGED <<att, gl, batch, r, pc, outFiles, cur, kal, pipe, numpy>>

\* the calls the model starts from: entry point, flags set at import, keyword
\* arguments (threshold in hundredths: glitterThreshold=0.5, threshold=90)
BatchConfigs ==
    { c \in { [ variant |-> v, hasGdal |-> g, hasNetcdf |-> n, enableGlitter |-> e,
                thresholdPct |-> t, cameraYaw |-> Deg(90), nRows |-> MaxRows ] :
              v \in {"v2", "v1", "glitter"}, g \in BOOLEAN, n \in BOOLEAN, e \in BOOLEAN,
              t \in {50, 9000} } :
        /\ (c.variant # "v2" => ~c.enableGlitter)
        /\ (c.variant = "v1" => c.thresholdPct = 50)
        /\ (c.variant = "v2" => c.thresholdPct = 50) }


Init ==
    /\ batch \in BatchConfigs
    /\ numpy \in IF IsPythonInt(batch.thresholdPct) THEN NumpyBuilds ELSE {"legacy"}
    /\ r = 1
    /\ pc = "loop"
    /\ outFiles = {}
    /\ cur = CurIdle
    /\ att = AttIdle
    /\ gl = GlIdle
    /\ kal = KalIdle
    /\ pipe = PipeIdle
    /\ img = ImgIdle

Next ==
    \/ GeoreferenceImages
    \/ DroneDataGeoreferenceImages
    \/ GeoreferenceImagesUsingGlitter
    \/ LoopEnd

Spec == Init /\ [][Next]_vars

\* the attitude composition alone
InitAttitude ==
    /\ numpy = "legacy"
    /\ att = AttIdle
    /\ gl = GlIdle
    /\ batch = [variant |-> "none"]
    /\ r = 0
    /\ pc = "idle"
    /\ outFiles = {}
    /\ cur = CurIdle
    /\ kal = KalIdle
    /\ pipe = PipeIdle
    /\ img = ImgIdle

NextAttitude ==
    \/ DoGeoreferenceAttitude
    \/ RewrapYaw

SpecAttitude == InitAttitude /\ [][NextAttitude]_vars

\* the glitter estimator alone
NextGlitter ==
    \/ CallCalcYaw
    \/ RunMain

\* every variable but numpy is as in InitAttitude
InitGlitter ==
    /\ numpy \in NumpyBuilds
    /\ att = AttIdle
    /\ gl = GlIdle
    /\ batch = [variant |-> "none"]
    /\ r = 0
    /\ pc = "idle"
    /\ outFiles = {}
    /\ cur = CurIdle
    /\ kal = KalIdle
    /\ pipe = PipeIdle
    /\ img = ImgIdle

SpecGlitter == InitGlitter /\ [][NextGlitter]_vars

\* the georeferencing engine alone
NextEngine == DoGeoreference

SpecEngine == InitAttitude /\ [][NextEngine]_vars

\* the smoother alone
SpecKalman == InitAttitude /\ [][NextKalman]_vars

\* run_pipeline alone, started on any state of the working directory
InitPipeline ==
    /\ numpy = "legacy"
    /\ att = AttIdle
    /\ gl = GlIdle
    /\ batch = [variant |-> "none"]
    /\ r = 0
    /\ pc = "idle"
    /\ outFiles = {}
    /\ cur = CurIdle
    /\ kal = KalIdle
    /\ pipe \in { [ppc |-> "start", fs |-> fs, ran |-> <<>>, consumed |-> "absent"] :
                  fs \in [ {METADATA_CSV, PROCESSED_CSV, SMOOTHED_CSV, NC_FILES, TIF_FILES,
                            MOSAIC_OUTPUT_FILE} -> {"absent", "stale"} ] }
    /\ img = ImgIdle

NextPipeline ==
    \/ PipelineStep1
    \/ PipelineStep2
    \/ PipelineStep3
    \/ PipelineStep4

SpecPipeline == InitPipeline /\ [][NextPipeline]_vars

\* the orientation of one image, read by either script
InitImage ==
    /\ numpy = "legacy"
    /\ att = AttIdle
    /\ gl = GlIdle
    /\ batch = [variant |-> "none"]
    /\ r = 0
    /\ pc = "idle"
    /\ outFiles = {}
    /\ cur = CurIdle
    /\ kal = KalIdle
    /\ pipe = PipeIdle
    /\ img \in { [ ipc |-> "start", file |-> f, extracted |-> m,
                    orient |-> [Pitch |-> 0, Roll |-> 0, Yaw |-> 0],
                    row |-> [GPSLatitude |-> "None", Pitch |-> 0, Roll |-> 0, Yaw |-> 0] ] :
                  f \in ImageFiles,
                  m \in { [GPSLatitude |-> "None"], [GPSLatitude |-> "36 deg 0' 0.00\" N"] } }

NextImage ==
    \/ SmartMergeRow
    \/ ExtractImageData

SpecImage == InitImage /\ [][NextImage]_vars

(***************************************************************************)
(* Claims                                                                  *)
(***************************************************************************)

\* C1: in every batch loop a failure while processing one image never aborts
\* the batch; the loop never stops on an exception while later rows of the
\* input remain unread.
C1_FailureNeverAbortsBatch == pc = "aborted" => cur.idx = batch.nRows

\* C2: do_georeference is never invoked with a non-finite altitude; a row whose
\* GPS_Altitude is NaN or infinite is skipped before the engine is called and
\* neither a GeoFrame nor an output file is produced for it.
C2_NoEngineCallWithNonFiniteAltitude ==
    cur.idx > 0 =>
        /\ cur.call.called => cur.call.alt.fin
        /\ ~cur.row.alt.fin => ~cur.call.called /\ ~cur.wroteNc /\ ~cur.wroteTif

\* C2 witness: a row with a non-finite altitude was reached and skipped at the
\* altitude test.
C2_Witness ==
    /\ cur.idx > 0
    /\ cur.row.alt = Inf
    /\ cur.outcome = "skip_altitude"

\* C3: a row whose roll, pitch or yaw is not finite is skipped like a row with
\* a missing altitude: do_georeference is not called and nothing is written.
C3_NonFiniteAttitudeSkipped ==
    (cur.idx > 0 /\ batch.variant \in {"v1", "v2"}
        /\ (~cur.row.roll.fin \/ ~cur.row.pitch.fin \/ ~cur.row.yaw.fin))
    => (~cur.call.called /\ ~cur.wroteNc /\ ~cur.wroteTif)

\* C4: when some dt of the trajectory is negative the smoothing pass is
\* rejected: no smoothed trajectory is written.
C4_NonMonotonicRejected ==
    kal.kpc = "written" => \A k \in 1..Len(kal.dts) : kal.dts[k] >= 0

\* C5: for a sample that repeats the previous timestamp (dt = 0) the transition
\* matrix is the identity, the process noise is zero, the predicted state and
\* covariance equal the prior ones, and the measurement update is applied to
\* them.
C5_RepeatedTimestampStep ==
    (kal.kpc \in {"loop", "written"} /\ kal.i >= 2 /\ kal.dts[kal.i] = 0) =>
        /\ kal.F = Identity4
        /\ kal.Q = Zero4
        /\ kal.xPred = kal.xPrior
        /\ kal.PPred = kal.PPrior
        /\ kal.updated
        /\ kal.x = UpdateX(kal.xPrior, kal.PPrior,
                           <<MeasureX(kal.traj, kal.i), MeasureY(kal.traj, kal.i)>>)
        /\ kal.P = UpdateP(kal.PPrior)

\* C5 witness: a repeated timestamp was filtered and its measurement moved
\* the state.
C5_Witness ==
    /\ kal.kpc \in {"loop", "written"}
    /\ kal.i >= 2
    /\ kal.dts[kal.i] = 0
    /\ kal.x # kal.xPrior

\* C6: for every platformYaw and mountYawOffset the totalYaw of do_georeference
\* lies in [0, 360), wrapping a wrapped yaw again leaves it unchanged, and
\* platformYaw = -90 with mountYawOffset = 450 gives 0.
C6_TotalYawWrapped ==
    att.stage = "composed" =>
        /\ 0 <= att.totalYaw /\ att.totalYaw < Deg(360)
        /\ att.rewrapped => att.totalYaw = att.wrappedOnce
        /\ (~att.rewrapped /\ att.droneYaw = Deg(-90) /\ att.cameraYaw = Deg(450))
               => att.totalYaw = 0

\* C7: with mountYawOffset = 0 the composition is the identity: totalPitch =
\* mountPitchOffset + platformPitch, totalRoll = platformRoll and totalYaw =
\* platformYaw % 360, for every roll, pitch and yaw.
C7_ZeroMountYawIdentity ==
    (att.stage = "composed" /\ ~att.rewrapped /\ att.cameraYaw = 0) =>
        /\ att.totalPitch = (att.cameraPitch + att.dronePitch) * 1000
        /\ att.totalRoll = att.droneRoll * 1000
        /\ att.totalYaw = PyMod(att.droneYaw, Deg(360))

\* C7 witness: a composition with zero mount yaw and non-zero roll and pitch.
C7_Witness ==
    /\ att.stage = "composed"
    /\ ~att.rewrapped
    /\ att.cameraYaw = 0
    /\ att.droneRoll # 0
    /\ att.dronePitch # 0
    /\ att.droneYaw < 0

\* C8: whenever the glitter estimation fails for an image (no estimate, or an
\* exception), the caller falls back to the telemetry yaw and the image is
\* still georeferenced; the image is not skipped and the batch does not stop.
C8_GlitterFailureFallsBack ==
    (cur.idx > 0 /\ cur.row.alt.fin /\ cur.glit.kind \in {"none", "raise"}) =>
        /\ pc # "aborted"
        /\ cur.call.called
        /\ cur.call.yaw = cur.row.yaw

\* C9: with glitter correction enabled in georeference_images, the yaw passed
\* to do_georeference is the glitter estimate when calc_yaw_from_ellipse
\* returned a value and the row's ATT_Yaw otherwise.
C9_YawOverride ==
    (cur.idx > 0 /\ batch.variant = "v2" /\ batch.enableGlitter /\ cur.call.called) =>
        /\ cur.glit.kind = "value" => cur.call.yaw = Num(cur.glit.yaw)
        /\ cur.glit.kind # "value" => cur.call.yaw = cur.row.yaw
        /\ cur.call.totalYaw =
               ComposeAttitude(cur.row.roll, cur.row.pitch, cur.call.yaw, Deg(30),
                               batch.cameraYaw).totalYaw

\* C9 witness: an estimate that differs from the telemetry yaw was passed on.
C9_Witness ==
    /\ cur.idx > 0
    /\ batch.variant = "v2"
    /\ batch.enableGlitter
    /\ cur.call.called
    /\ cur.glit.kind = "value"
    /\ cur.row.yaw.fin
    /\ cur.call.yaw # cur.row.yaw

\* C10: calc_yaw_from_ellipse returns none for every readable image whose
\* maximum grey intensity is below 100, and the darkness test reads the
\* unblurred intensity: an image is rejected as dark exactly when its
\* unblurred maximum is below the floor.
C10_DarkImageRejected ==
    (gl.stage = "returned" /\ gl.image # NoImage) =>
        /\ MaxOf(GrayImage(gl.image)) < DarkFloor
               => (gl.res.kind = "none" /\ gl.res.stage = "dark")
        /\ gl.res.stage = "dark" => MaxOf(GrayImage(gl.image)) < DarkFloor

\* C10 witness: an all-black image was read and rejected as dark.
C10_Witness ==
    /\ gl.stage = "returned"
    /\ gl.image = [i \in 1..ImgLen |-> Black]
    /\ gl.res.kind = "none"
    /\ gl.res.stage = "dark"

\* C11: calc_yaw_from_ellipse returns none, and neither a yaw nor an
\* exception, whenever no contour is found: when the mask has no bright region
\* above the threshold (it is uniform, so it has no edge) and when the contour
\* search returns nothing.
C11_NoContourReturnsNone ==
    (gl.stage = "returned" /\ gl.image # NoImage /\ ~DarkTest(GrayImage(gl.image))) =>
        LET g == GrayImage(gl.image)
            mask == ImageMask(GaussianBlur(g), gl.thresholdPct, MaxOf(g))
        IN  ((\A i \in 1..Len(mask) : mask[i] = 0) \/ gl.found = <<>>)
                => gl.res = GlNone("nocontour")

C11_Witness ==
    /\ gl.stage = "returned"
    /\ gl.image # NoImage
    /\ ~DarkTest(GrayImage(gl.image))
    /\ gl.found # <<>>
    /\ LET g == GrayImage(gl.image)
           mask == ImageMask(GaussianBlur(g), gl.thresholdPct, MaxOf(g))
       IN  \A i \in 1..Len(mask) : mask[i] = 0
    /\ gl.res = GlNone("nocontour")

\* C12: every path that computes a glitter yaw computes it as the solar
\* azimuth minus the angle of a fitted ellipse; none computes the ellipse
\* angle minus the azimuth.
C12_SameSignConvention ==
    (gl.stage \in {"returned", "main_done"} /\ gl.res.kind = "value") =>
        \E i \in 1..Len(gl.found) : gl.res.yaw = gl.azimuth.v - gl.found[i].angle

\* C13: a call of temporal_smooth_kalman never changes the original
\* measurements, whatever the two paths are: after it the input file holds the
\* rows, and the raw longitude and latitude, it held before, and the corrected
\* positions are in another file.
C13_InputNeverMutated ==
    kal.kpc \in {"written", "notfound"} =>
        /\ kal.files[kal.metadata_path] = kal.files0[kal.metadata_path]
        /\ kal.kpc = "written" =>
               /\ kal.output_path # kal.metadata_path
               /\ kal.files[kal.output_path] = File(kal.out)

\* C14: the table written has one row per input row, in the same order, with
\* filename, altitude, roll, pitch, yaw and droneTime_MS unchanged, the
\* longitude and latitude replaced by the smoothed ones, and a speed column.
C14_OutputShape ==
    kal.kpc = "written" =>
        /\ Len(kal.out) = Len(kal.df)
        /\ kal.files[kal.output_path] = File(kal.out)
        /\ \A k \in 1..Len(kal.df) :
              /\ kal.out[k].filename = kal.df[k].filename
              /\ kal.out[k].GPS_Altitude = kal.df[k].GPS_Altitude
              /\ kal.out[k].ATT_Roll = kal.df[k].ATT_Roll
              /\ kal.out[k].ATT_Pitch = kal.df[k].ATT_Pitch
              /\ kal.out[k].ATT_Yaw = kal.df[k].ATT_Yaw
              /\ kal.out[k].droneTime_MS = kal.df[k].droneTime_MS
              /\ kal.out[k].GPS_Longitude = PassOutput(kal.traj, k).GPS_Longitude
              /\ kal.out[k].GPS_Latitude = PassOutput(kal.traj, k).GPS_Latitude
              /\ kal.out[k].Speed_m_s = PassOutput(kal.traj, k).Speed_m_s

C14_Witness ==
    /\ kal.kpc = "written"
    /\ Len(kal.out) = MaxSamples
    /\ \E k \in 1..Len(kal.out) : kal.out[k].GPS_Longitude # kal.df[k].GPS_Longitude
    /\ \E k \in 1..Len(kal.out) : kal.out[k].GPS_Latitude # kal.df[k].GPS_Latitude

\* C15: the first sample only seeds the filter: the state starts at offset
\* (0, 0) with zero velocity, neither predict nor update runs for it, its
\* smoothed position is its raw position and its speed is NaN; also when it is
\* the only sample.
C15_FirstSampleSeeds ==
    /\ (kal.kpc = "loop" /\ kal.i <= 1) =>
           /\ kal.x = <<0, 0, 0, 0>>
           /\ kal.P = InitialCovariance
           /\ ~kal.predicted /\ ~kal.updated
    /\ (kal.kpc \in {"loop", "written"} /\ kal.i >= 1) =>
           /\ kal.smoothed_x[1] = 0 /\ kal.smoothed_y[1] = 0
           /\ kal.calculated_speeds[1] = NaN
           /\ Len(kal.calculated_speeds) = kal.i
    /\ kal.kpc = "written" =>
           /\ kal.out[1].GPS_Longitude = kal.df[1].GPS_Longitude
           /\ kal.out[1].GPS_Latitude = kal.df[1].GPS_Latitude
           /\ kal.out[1].Speed_m_s = NaN

C15_Witness ==
    /\ kal.kpc = "written"
    /\ Len(kal.traj) = 1
    /\ kal.out[1].Speed_m_s = NaN
    /\ ~kal.predicted

\* C16: the samples are consumed in input order, each once; every sample
\* after the first is predicted and then updated from the state and covariance
\* the previous sample left; and what is reported for a sample does not depend
\* on a later sample (it is what a call on the table cut after that sample
\* reports for it).
C16_SequentialAndCausal ==
    /\ kal.kpc \in {"loop", "written"} =>
           /\ Len(kal.smoothed_x) = kal.i /\ Len(kal.smoothed_y) = kal.i
           /\ kal.i >= 2 =>
                 LET zs == Measurements(kal.traj)
                     prev == FilterAfter(zs, kal.dts, kal.i - 1)
                 IN  /\ kal.xPrior = prev.x /\ kal.PPrior = prev.P
                     /\ kal.xPred = MatVec(kal.F, kal.xPrior)
                     /\ kal.PPred = PredictP(kal.F, kal.PPrior, kal.Q)
                     /\ kal.x = UpdateX(kal.xPred, kal.PPred, zs[kal.i])
                     /\ kal.P = UpdateP(kal.PPred)
    /\ kal.kpc = "written" =>
           \A k \in 1..Len(kal.traj) : \A n \in k..Len(kal.traj) :
               PassOutput(SubSeq(kal.traj, 1, n), k)
                   = [ GPS_Longitude |-> kal.out[k].GPS_Longitude,
                       GPS_Latitude |-> kal.out[k].GPS_Latitude,
                       Speed_m_s |-> kal.out[k].Speed_m_s ]

\* C17: each raster do_georeference returns is the unflipped raster with its
\* rows reversed once (row rw is the unflipped row n - 1 - rw counted from 0,
\* columns untouched), longitudes and latitudes alike, and the five reference
\* points are returned as computed.
C17_RasterFlippedOnce ==
    att.stage = "georeferenced" =>
        LET res == att.res
            n0 == att.nPixelsX
            unflipped(i, j) ==
                ProjectAngles(att.droneLonLat, att.droneAltitude, res.pixelAnglesX[i],
                              res.pixelAnglesY[j], res.totalImageYaw)
        IN  /\ Len(res.lons) = n0 /\ Len(res.lats) = n0
            /\ \A rw \in 1..n0 : \A c \in 1..att.nPixelsY :
                  /\ res.lons[rw][c] = unflipped(n0 + 1 - rw, c)[1]
                  /\ res.lats[rw][c] = unflipped(n0 + 1 - rw, c)[2]
            /\ res.imageRefLonLats =
                  FindImageReferenceLonLats(att.droneLonLat, att.droneAltitude,
                                            res.totalImageRoll, res.totalImagePitch,
                                            res.totalImageYaw, att.hFov, res.vFov)

C17_Witness ==
    /\ att.stage = "georeferenced"
    /\ att.nPixelsX = MaxPixels
    /\ att.nPixelsY > 1
    /\ att.res.lons[1] # att.res.lons[MaxPixels]
    /\ att.res.lons # att.res.unflippedLons

\* C18: for every attitude and grid size, the centre reference point equals
\* the longitude and latitude of the centre pixel of the returned rasters.
C18_CentreMatchesRaster ==
    att.stage = "georeferenced" =>
        LET cx == (att.nPixelsX \div 2) + 1
            cy == (att.nPixelsY \div 2) + 1
        IN  att.res.imageRefLonLats[1] = <<att.res.lons[cx][cy], att.res.lats[cx][cy]>>

\* C19: when the pointing angle of a pixel reaches +-90 degrees the call
\* reports a warning and the pixel is excluded or clamped: its distance is
\* not the degenerate one.
C19_DegenerateProjectionFlagged ==
    att.stage = "georeferenced" =>
        LET res == att.res
            AtHorizon(a) == Abs(a) % Deg(180) = Deg(90)
            Degenerate(a) == Abs(GroundDistance(att.droneAltitude, a))
                                 >= GroundDistance(att.droneAltitude, Deg(90))
            ax(i) == res.pixelAnglesX[i]
            ay(j) == res.pixelAnglesY[j]
        IN  \A i \in 1..att.nPixelsX : \A j \in 1..att.nPixelsY :
                (AtHorizon(ax(i)) \/ AtHorizon(ay(j))) =>
                    /\ res.warnings # {}
                    /\ res.unflippedLons[i][j] # ProjectAngles(att.droneLonLat,
                            att.droneAltitude, ax(i), ay(j), res.totalImageYaw)[1]
                       \/ (~Degenerate(ax(i)) /\ ~Degenerate(ay(j)))

\* C20: in the nadir configuration (mount pitch -90, mount yaw 0, roll, pitch
\* and yaw 0, altitude 100, drone at longitude 0 and latitude 0) the centre
\* reference point is the drone's position and the corners are symmetric
\* about it.
C20_NadirCentreAndSymmetry ==
    ( /\ att.stage = "georeferenced"
      /\ att.cameraPitch = Deg(-90) /\ att.cameraYaw = 0
      /\ att.droneRoll = 0 /\ att.dronePitch = 0 /\ att.droneYaw = 0
      /\ att.droneAltitude = 100 /\ att.droneLonLat = <<0, 0>> ) =>
        LET p == att.res.imageRefLonLats
        IN  /\ p[1] = att.droneLonLat
            /\ \A c \in 1..2 : p[2][c] + p[5][c] = 2 * p[1][c]
            /\ \A c \in 1..2 : p[3][c] + p[4][c] = 2 * p[1][c]

\* C21: the smoother's conversion between longitude / latitude and local
\* metres is a round trip (every raw sample converted to east / north metres
\* and back with the scale factors and origin of the call is the sample
\* again), and the longitude scale is LON_TO_M times the cosine of the
\* latitude of the origin, the first sample.
C21_RoundTripOriginScale ==
    kal.kpc \in {"loop", "written"} =>
        /\ \A k \in 1..Len(kal.traj) :
              /\ KalmanLon(kal.traj, MeasureX(kal.traj, k)) = kal.traj[k].lon
              /\ KalmanLat(kal.traj, MeasureY(kal.traj, k)) = kal.traj[k].lat
        /\ LonToCmAtLat(kal.traj) = RDiv((LON_TO_CM \div 100) * CosLatK(kal.traj[1].lat), 10)

\* C22: for a trajectory with zero GPS noise and constant velocity (the raw
\* samples are the true positions, equal displacement per unit of time at
\* every step), every smoothed position from the third sample on lies within
\* the measurement-noise bound, 3 m per axis, of the true position.
C22_ConstantVelocityConverges ==
    LET traj == kal.traj
        ConstantVelocity ==
            /\ Len(traj) >= 3
            /\ \A k \in 2..Len(traj) :
                  /\ traj[k].t > traj[k - 1].t
                  /\ (traj[k].lon - traj[k - 1].lon) * (traj[2].t - traj[1].t)
                        = (traj[2].lon - traj[1].lon) * (traj[k].t - traj[k - 1].t)
                  /\ (traj[k].lat - traj[k - 1].lat) * (traj[2].t - traj[1].t)
                        = (traj[2].lat - traj[1].lat) * (traj[k].t - traj[k - 1].t)
    IN  (kal.kpc = "written" /\ ConstantVelocity) =>
            \A k \in 3..Len(traj) :
                /\ Abs(kal.smoothed_x[k] - Measurements(traj)[k][1]) <= Fx(GpsNoiseStd)
                /\ Abs(kal.smoothed_y[k] - Measurements(traj)[k][2]) <= Fx(GpsNoiseStd)

\* C23: processing one image never changes the inputs used for another image
\* of the same batch: the yaw and the grid that georeference_images uses for
\* a row come only from that row and its own image file (or the defaults),
\* whatever glitter yaw, pixel dimensions, aspect ratio or image array an
\* earlier iteration left in the function's variables.
C23_NoLeakBetweenImages ==
    (pc \in {"loop", "done"} /\ batch.variant = "v2" /\ cur.idx > 0
        /\ cur.outcome = "processed") =>
        LET opened == batch.hasGdal /\ cur.scene.exists /\ cur.scene.image # NoImage
            own == CalcYawFromEllipse(cur.scene.image, batch.thresholdPct, cur.scene.found,
                                      [ok |-> TRUE, v |-> Deg(140)])
        IN  /\ cur.glit.kind = "value" => (cur.scene.exists /\ cur.glit = own)
            /\ cur.call.yaw = IF cur.glit.kind = "value" THEN Num(cur.glit.yaw)
                              ELSE cur.row.yaw
            /\ cur.call.yaw = cur.loc.droneYaw
            /\ cur.loc.current_n_pixels = IF opened THEN <<Len(cur.scene.image), 1>>
                                          ELSE DEFAULT_N_PIXELS
            /\ cur.loc.current_aspect = IF opened THEN <<Len(cur.scene.image), 1>>
                                        ELSE DEFAULT_ASPECT_RATIO
            /\ cur.loc.imageDataArray = IF opened THEN cur.scene.image ELSE NoImage

\* the second row is processed with the telemetry yaw and the default grid
\* while the function's variables still hold the glitter yaw of the first
C23_Witness ==
    /\ pc = "loop" /\ batch.variant = "v2" /\ batch.hasGdal
    /\ cur.idx = 2 /\ cur.outcome = "processed"
    /\ cur.glit.kind = "notrun" /\ ~cur.scene.exists
    /\ cur.loc.glitter_yaw.kind = "value"
    /\ cur.loc.current_n_pixels = DEFAULT_N_PIXELS

\* C24: whenever a glitter yaw is derived, by calc_yaw_from_ellipse or by
\* the script, the ellipse was fitted to a contour having the greatest
\* number of boundary points among the contours found, the first such
\* contour on a tie.
C24_LargestContourFitted ==
    (gl.stage \in {"returned", "main_done"} /\ gl.res.kind = "value") =>
        LET angle == IF gl.stage = "returned" THEN gl.azimuth.v - gl.res.yaw
                     ELSE gl.res.yaw + gl.azimuth.v
            best == { i \in 1..Len(gl.found) :
                        \A j \in 1..Len(gl.found) : gl.found[j].n <= gl.found[i].n }
        IN  /\ best # {}
            /\ \E i \in best : (\A j \in best : i <= j) /\ gl.found[i].angle = angle

\* C25: georeference_images never overwrites an existing output: an
\* iteration writes no file that exists when its row is reached, and a row
\* whose .nc output exists is skipped without writing anything (so a second
\* pass over the same rows leaves the outputs of the first unchanged).
C25_NeverOverwrites ==
    [][ (batch.variant \in {"v1", "v2"} /\ cur'.idx # cur.idx) =>
            /\ cur'.wroteNc => NcName(cur'.row.filename) \notin outFiles
            /\ cur'.wroteTif => TifName(cur'.row.filename) \notin outFiles
            /\ NcName(cur'.row.filename) \in outFiles =>
                  (~cur'.wroteNc /\ ~cur'.wroteTif /\ ~cur'.call.called) ]_vars

\* C26: run_pipeline executes its stages in the order metadata processing,
\* Kalman smoothing, georeferencing, mosaic, and a stage runs only if every
\* earlier stage produced its output in the current run; georeferencing
\* never reads a table that was not smoothed in this run.
C26_StagesInOrderAfterSuccess ==
    pipe.ppc # "idle" =>
        LET order == <<"metadata", "kalman", "georeference", "mosaic">>
            output == <<PROCESSED_CSV, SMOOTHED_CSV, TIF_FILES, MOSAIC_OUTPUT_FILE>>
        IN  /\ Len(pipe.ran) <= Len(order)
            /\ \A k \in 1..Len(pipe.ran) : pipe.ran[k] = order[k]
            /\ \A k \in 2..Len(pipe.ran) : pipe.fs[output[k - 1]] = "fresh"
            /\ Len(pipe.ran) >= 3 => pipe.consumed = "fresh"

\* C27: for a stationary trajectory (every sample at the longitude and
\* latitude of the first) with non-negative time steps, the smoothed
\* position of every sample is its raw position and every reported speed
\* after the first sample is 0.
C27_StationaryStaysPut ==
    (kal.kpc = "written"
        /\ \A k \in 1..Len(kal.traj) :
              /\ kal.traj[k].lon = kal.traj[1].lon
              /\ kal.traj[k].lat = kal.traj[1].lat
              /\ kal.dts[k] >= 0) =>
        \A k \in 1..Len(kal.traj) :
            /\ kal.out[k].GPS_Longitude = kal.traj[k].lon
            /\ kal.out[k].GPS_Latitude = kal.traj[k].lat
            /\ k > 1 => kal.out[k].Speed_m_s = Num(0)

\* a stationary trajectory of three samples, one of them with a repeated
\* timestamp and one a second after its predecessor, has been written
C27_Witness ==
    /\ kal.kpc = "written"
    /\ Len(kal.traj) >= 3
    /\ \A k \in 1..Len(kal.traj) :
          kal.traj[k].lon = kal.traj[1].lon /\ kal.traj[k].lat = kal.traj[1].lat
    /\ kal.dts[2] = 0 /\ kal.dts[3] = 1
    /\ kal.out[3].Speed_m_s = Num(0)

\* C28: a call of calc_yaw_from_ellipse with a threshold of 1 or more (such
\* as the default threshold=90 of georeference_images_using_glitter) finds
\* no pixel above threshold times the maximum intensity, its mask is empty,
\* and it returns none whatever the image.
C28_ThresholdAboveOneFindsNothing ==
    (gl.stage = "returned" /\ gl.thresholdPct >= 100) =>
        /\ gl.res.kind = "none"
        /\ gl.image # NoImage =>
              LET g == GrayImage(gl.image)
              IN  \A i \in 1..Len(g) :
                     ImageMask(GaussianBlur(g), gl.thresholdPct, MaxOf(g))[i] = 0

\* C29: in georeference_images a row that lacks one of the columns filename,
\* ATT_Pitch, ATT_Roll, ATT_Yaw, GPS_Longitude, GPS_Latitude, droneTime_MS,
\* GPS_Altitude is skipped without a call of the engine and without output,
\* and the loop goes on to the next row; a row that has them all is read,
\* with GPS_NSats and GPS_HDop taken as 0 where the column is absent.
C29_MissingColumnSkipsRow ==
    (batch.variant \in {"v1", "v2"} /\ cur.idx > 0) =>
        LET required == {"filename", "ATT_Pitch", "ATT_Roll", "ATT_Yaw", "GPS_Longitude",
                         "GPS_Latitude", "droneTime_MS", "GPS_Altitude"}
        IN  IF required \subseteq cur.row.cols
            THEN /\ cur.outcome # "skip_keyerror"
                 /\ cur.row.droneNSats = IF "GPS_NSats" \in cur.row.cols THEN 15 ELSE 0
                 /\ cur.row.droneHDop = IF "GPS_HDop" \in cur.row.cols THEN 1 ELSE 0
            ELSE /\ cur.outcome = "skip_keyerror"
                 /\ ~cur.call.called /\ ~cur.wroteNc /\ ~cur.wroteTif
                 /\ pc \in {"loop", "done"}
                 /\ r = cur.idx + 1

\* the first row has no droneTime_MS column: it was skipped, nothing was
\* written and the loop stands before the second row
C29_Witness ==
    /\ batch.variant = "v2" /\ pc = "loop"
    /\ cur.idx = 1 /\ "droneTime_MS" \notin cur.row.cols
    /\ cur.outcome = "skip_keyerror" /\ outFiles = {} /\ r = 2

\* C30: parse_dji_xmp reports, for each of roll, pitch and yaw, the value of
\* the Flight*Degree tag whenever that tag is present and parseable (the
\* value 0 included) and the value of the Gimbal*Degree tag only when the
\* Flight tag is absent or unparseable, and extract_image_data records each of
\* the three parsed values in its row independently of the other two.
C30_FlightTagFirstEachAxisRecorded ==
    (img.ipc \in {"merged", "extracted"} /\ img.file.readable) =>
        \A axis \in {"Roll", "Pitch", "Yaw"} :
            LET flight == FindTag(img.file.content, "Flight" \o axis \o "Degree")
                gimbal == FindTag(img.file.content, "Gimbal" \o axis \o "Degree")
            IN  /\ flight # None => img.orient[axis] = flight.v
                /\ (flight = None /\ gimbal # None) => img.orient[axis] = gimbal.v
                /\ (flight = None /\ gimbal = None) => img.orient[axis] = 0
                /\ img.row[axis] = img.orient[axis]

====
